---- MODULE Spec2Model ----
(***************************************************************************)
(* A model of the dungeon_creator crate: the floor-layout digging walk,    *)
(* the dungeon architect, the tile connectivity analysis, the four room    *)
(* builders and the room arrangement of DungeonBuilder::create_rooms.      *)
(*                                                                         *)
(* Vectors are sequences (index i of the code is index i+1 here); tile     *)
(* vectors are functions over 0..len-1 so that tile indices are the        *)
(* code's.  A panic of the code (an index out of range, unwrap on None,    *)
(* an empty random range) is the control location "panic".                 *)
(***************************************************************************)
EXTENDS Integers, Sequences, FiniteSets, TLC

VARIABLES
    pc,          \* control location of the operation being run
    cfg,         \* the room builder's or the architect's configuration
    req,         \* the FloorRoom handed to create_room
    room,        \* the DungeonRoom being built
    loc,         \* the running operation's local variables
    arranged,    \* the ArrangedDungeonRoom of create_rooms
    sets,        \* the value returned by connected_tile_sets
    floor_size,  \* randomized_layout: the requested number of rooms
    start_room,  \* randomized_layout: the start position
    pos,         \* randomized_layout: the digging cursor
    layout,      \* randomized_layout: the recorded coordinates
    floor,       \* the FloorLayout returned by create_floor_layout
    dungeon      \* the DungeonLayout and the architect's locals

vars == <<pc, cfg, req, room, loc, arranged, sets,
          floor_size, start_room, pos, layout, floor, dungeon>>

roomVars == <<cfg, req, room, loc, arranged, sets>>
floorVars == <<floor_size, start_room, pos, layout, floor>>

\* A value for the variables an operation does not use.
Idle == "idle"

----------------------------------------------------------------------------
(* Generic helpers *)

Min(a, b) == IF a < b THEN a ELSE b
Max(a, b) == IF a > b THEN a ELSE b
Abs(a) == IF a < 0 THEN 0 - a ELSE a

Range(s) == {s[i] : i \in DOMAIN s}
Contains(s, x) == \E i \in DOMAIN s : s[i] = x

RECURSIVE SortedSeq(_)
\* The elements of a finite set of integers in ascending order (Vec::sort).
SortedSeq(S) ==
    IF S = {} THEN <<>>
    ELSE LET m == CHOOSE x \in S : \A y \in S : x <= y
         IN  <<m>> \o SortedSeq(S \ {m})

\* The elements of seq that satisfy Test, in order (Iterator::filter).
FilterSeq(seq, Test(_)) == SelectSeq(seq, Test)

----------------------------------------------------------------------------
(* src/direction.rs *)

Directions3D == {"Top", "Bottom", "Left", "Right", "Up", "Down", "None"}
ExitDirections == {"Top", "Bottom", "Left", "Right"}

\* A mutant of opposite: Up and Down are returned as they are.
opposite_UpDownKept(d) ==
    CASE d = "Top" -> "Bottom"
      [] d = "Right" -> "Left"
      [] d = "Bottom" -> "Top"
      [] d = "Left" -> "Right"
      [] OTHER -> d

\* Direction3D::opposite
opposite(d) ==
    CASE d = "Top" -> "Bottom"
      [] d = "Right" -> "Left"
      [] d = "Bottom" -> "Top"
      [] d = "Left" -> "Right"
      [] d = "Up" -> "Down"
      [] d = "Down" -> "Up"
      [] OTHER -> "None"

\* The longest vector of directions opposite is applied to.
MaxDirections == 2

\* opposite applied to every direction of a vector, and to the results again.
InitOpposite ==
    /\ pc = "directions"
    /\ \E n \in 1..MaxDirections :
         \E directions \in [1..n -> Directions3D] :
             loc = [directions |-> directions, opposites |-> <<>>]
    /\ cfg = Idle
    /\ req = Idle
    /\ room = Idle
    /\ arranged = Idle
    /\ sets = Idle
    /\ dungeon = Idle
    /\ floor_size = 0
    /\ start_room = Idle
    /\ pos = Idle
    /\ layout = <<>>
    /\ floor = Idle

\* d.opposite() for every d of the vector
Opposite ==
    /\ pc = "directions"
    /\ loc' = [loc EXCEPT !.opposites =
                  [i \in DOMAIN loc.directions |-> opposite(loc.directions[i])]]
    /\ pc' = "opposite"
    /\ UNCHANGED <<cfg, req, room, arranged, sets, dungeon>>
    /\ UNCHANGED <<floor_size, start_room, pos, layout, floor>>

\* d.opposite().opposite() for every d of the vector
OppositeAgain ==
    /\ pc = "opposite"
    /\ loc' = [loc EXCEPT !.opposites =
                  [i \in DOMAIN loc.opposites |-> opposite(loc.opposites[i])]]
    /\ pc' = "opposite_opposite"
    /\ UNCHANGED <<cfg, req, room, arranged, sets, dungeon>>
    /\ UNCHANGED <<floor_size, start_room, pos, layout, floor>>

NextOpposite == Opposite \/ OppositeAgain

SpecOpposite == InitOpposite /\ [][NextOpposite]_vars

\* C19: opposite exchanges Top with Bottom, Left with Right and Up with Down
\* and keeps None, and applied twice it returns each of the six directions
\* (and None) unchanged.
C19_OppositeInvolution ==
    /\ pc = "opposite" =>
          \A i \in DOMAIN loc.directions :
              <<loc.directions[i], loc.opposites[i]>> \in
                  {<<"Top", "Bottom">>, <<"Bottom", "Top">>, <<"Left", "Right">>,
                   <<"Right", "Left">>, <<"Up", "Down">>, <<"Down", "Up">>,
                   <<"None", "None">>}
    /\ pc = "opposite_opposite" => loc.opposites = loc.directions

\* opposite was applied twice to a vector holding Up and Left.
C19_Witness ==
    /\ pc = "opposite_opposite"
    /\ loc.directions = <<"Up", "Left">>
    /\ loc.opposites = <<"Up", "Left">>

----------------------------------------------------------------------------
(* src/floor/floor_architecture.rs *)

RoomCoordinates(row, col) == [row |-> row, col |-> col]
clone_delta_row(c, delta) == [row |-> c.row + delta, col |-> c.col]
clone_delta_col(c, delta) == [row |-> c.row, col |-> c.col + delta]

\* A mutant of DigMove: draw 0 moves the cursor two columns.
DigMove_Leap(p, draw) ==
    CASE draw = 0 -> [p EXCEPT !.col = p.col + 2]
      [] draw = 1 -> [p EXCEPT !.col = p.col - 1]
      [] draw = 2 -> [p EXCEPT !.row = p.row + 1]
      [] draw = 3 -> [p EXCEPT !.row = p.row - 1]
      [] OTHER -> p

\* The cursor after one draw of rng.gen_range(0..4).
DigMove(p, draw) ==
    CASE draw = 0 -> [p EXCEPT !.col = p.col + 1]
      [] draw = 1 -> [p EXCEPT !.col = p.col - 1]
      [] draw = 2 -> [p EXCEPT !.row = p.row + 1]
      [] draw = 3 -> [p EXCEPT !.row = p.row - 1]
      [] OTHER -> p

\* A mutant of DigRecord: the position is recorded even when already present.
DigRecord_AlwaysPush(lay, p) == Append(lay, p)

\* The layout after the cursor arrived at p: recorded only when new.
DigRecord(lay, p) == IF Contains(lay, p) THEN lay ELSE Append(lay, p)

\* A mutant of ExitsOf: Top and Bottom look at the wrong neighbour row.
ExitsOf_RowsSwapped(all_coords, c) ==
    (IF Contains(all_coords, clone_delta_col(c, 1)) THEN <<"Right">> ELSE <<>>)
    \o (IF Contains(all_coords, clone_delta_col(c, -1)) THEN <<"Left">> ELSE <<>>)
    \o (IF Contains(all_coords, clone_delta_row(c, 1)) THEN <<"Top">> ELSE <<>>)
    \o (IF Contains(all_coords, clone_delta_row(c, -1)) THEN <<"Bottom">> ELSE <<>>)

\* The exit directions of one coordinate, in the order the code pushes them.
ExitsOf(all_coords, c) ==
    (IF Contains(all_coords, clone_delta_col(c, 1)) THEN <<"Right">> ELSE <<>>)
    \o (IF Contains(all_coords, clone_delta_col(c, -1)) THEN <<"Left">> ELSE <<>>)
    \o (IF Contains(all_coords, clone_delta_row(c, -1)) THEN <<"Top">> ELSE <<>>)
    \o (IF Contains(all_coords, clone_delta_row(c, 1)) THEN <<"Bottom">> ELSE <<>>)

get_exits(all_coords) ==
    [i \in DOMAIN all_coords |->
        [coords |-> all_coords[i], exits |-> ExitsOf(all_coords, all_coords[i])]]

\* create_floor_layout once randomized_layout has returned coords.
FloorLayoutOf(coords, floor_number) ==
    [rooms |-> [i \in DOMAIN coords |->
                  [coords |-> get_exits(coords)[i].coords,
                   exits |-> get_exits(coords)[i].exits,
                   stair_up |-> FALSE,
                   stair_down |-> FALSE]],
     floor |-> floor_number]

\* Bounds of the floor-layout specification.
MaxFloorSize == 4
StartPositions == {RoomCoordinates(0, 0), RoomCoordinates(1, -2)}

FloorIdle ==
    /\ floor_size = 0
    /\ start_room = Idle
    /\ pos = Idle
    /\ layout = <<>>
    /\ floor = Idle

RoomIdle ==
    /\ cfg = Idle
    /\ req = Idle
    /\ room = Idle
    /\ loc = Idle
    /\ arranged = Idle
    /\ sets = Idle

\* randomized_layout before its loop; no FloorLayout is returned yet (floor
\* holds a layout without rooms until create_floor_layout returns).
InitFloor ==
    /\ pc = "dig"
    /\ floor_size \in 1..MaxFloorSize
    /\ start_room \in StartPositions
    /\ pos = start_room
    /\ layout = <<start_room>>
    /\ floor = FloorLayoutOf(<<>>, 0)
    /\ dungeon = Idle
    /\ RoomIdle

\* One turn of the while loop of randomized_layout.
DigStep ==
    /\ pc = "dig"
    /\ Len(layout) < floor_size
    /\ \E draw \in 0..3 :
         /\ pos' = DigMove(pos, draw)
         /\ layout' = DigRecord(layout, DigMove(pos, draw))
    /\ UNCHANGED <<pc, floor_size, start_room, floor, dungeon>>
    /\ UNCHANGED roomVars

\* The loop of randomized_layout has ended: get_exits and the FloorLayout.
CreateFloorLayout ==
    /\ pc = "dig"
    /\ ~(Len(layout) < floor_size)
    /\ floor' = FloorLayoutOf(layout, 0)
    /\ pc' = "floor_done"
    /\ UNCHANGED <<floor_size, start_room, pos, layout, dungeon>>
    /\ UNCHANGED roomVars

NextFloor == DigStep \/ CreateFloorLayout

SpecFloor == InitFloor /\ [][NextFloor]_vars

\* A turn of the loop that draws a direction toward a position not yet
\* recorded.
DigNew == DigStep /\ Len(layout') > Len(layout)

\* The digging walk with a fair random source: a direction that leads to a
\* new position, drawn with probability 1/4 or more whenever the cursor has
\* an unrecorded neighbour, is not avoided forever, and a loop whose
\* condition fails returns.
SpecFloorFair ==
    /\ InitFloor
    /\ [][NextFloor]_vars
    /\ SF_vars(DigNew)
    /\ WF_vars(CreateFloorLayout)

\* The walk has stopped with floor_size pairwise distinct positions.
DigDone ==
    /\ pc = "floor_done"
    /\ Len(layout) = floor_size
    /\ \A i, j \in DOMAIN layout : i # j => layout[i] # layout[j]

\* A turn of the loop never removes a recorded position, and a step onto a
\* recorded position leaves everything but the cursor as it was.
DigKeeps ==
    /\ Len(layout') >= Len(layout)
    /\ SubSeq(layout', 1, Len(layout)) = layout
    /\ (pc' = "dig" /\ Contains(layout, pos')) =>
          UNCHANGED <<pc, floor_size, start_room, layout>>

\* C25: with a fair random source the digging walk eventually stops with
\* floor_size distinct recorded positions; until then the number of recorded
\* positions never decreases and a step onto a recorded position changes
\* only the cursor.
C25_DigTerminates == <>DigDone /\ [][DigKeeps]_vars

\* The walk stands on a position it recorded earlier than its latest one,
\* with positions still to record.
C25_Witness ==
    /\ pc = "dig"
    /\ Len(layout) >= 3
    /\ Len(layout) < floor_size
    /\ Contains(layout, pos)
    /\ pos # layout[Len(layout)]

\* The coordinate one step from c in direction d, as the claims state it.
StepFrom(c, d) ==
    CASE d = "Top" -> RoomCoordinates(c.row - 1, c.col)
      [] d = "Bottom" -> RoomCoordinates(c.row + 1, c.col)
      [] d = "Left" -> RoomCoordinates(c.row, c.col - 1)
      [] d = "Right" -> RoomCoordinates(c.row, c.col + 1)

FloorCoords == {floor.rooms[i].coords : i \in DOMAIN floor.rooms}

\* C5: create_floor_layout returns exactly floor_size rooms, their coordinates
\* pairwise distinct, the first of them the start position.
C5_FloorSizeDistinctStart ==
    pc = "floor_done" =>
        /\ Len(floor.rooms) = floor_size
        /\ \A i, j \in DOMAIN floor.rooms :
               i # j => floor.rooms[i].coords # floor.rooms[j].coords
        /\ floor.rooms[1].coords = start_room

\* A returned floor of three or more rooms whose walk ended away from the start.
C5_Witness ==
    /\ pc = "floor_done"
    /\ floor_size >= 3
    /\ Len(floor.rooms) >= 3
    /\ pos # start_room

\* C6: a room has exit D iff the coordinate one step in D is a room of the
\* floor, hence exits are symmetric (A exits D toward B => B exits opposite(D)).
C6_ExitsIffNeighbour ==
    pc = "floor_done" =>
        \A i \in DOMAIN floor.rooms :
            \A d \in ExitDirections :
                /\ Contains(floor.rooms[i].exits, d)
                       <=> StepFrom(floor.rooms[i].coords, d) \in FloorCoords
                /\ Contains(floor.rooms[i].exits, d) =>
                       \E j \in DOMAIN floor.rooms :
                           /\ floor.rooms[j].coords = StepFrom(floor.rooms[i].coords, d)
                           /\ Contains(floor.rooms[j].exits, opposite(d))

\* A returned floor with a room that exits to the Top and one that does not.
C6_Witness ==
    /\ pc = "floor_done"
    /\ \E i, j \in DOMAIN floor.rooms :
           /\ Contains(floor.rooms[i].exits, "Top")
           /\ ~Contains(floor.rooms[j].exits, "Top")
           /\ Contains(floor.rooms[j].exits, "Bottom")

\* The coordinates of S one step from c.
CoordNeighbours(S, c) == {StepFrom(c, d) : d \in ExitDirections} \cap S

\* The coordinates of S joined to R by chains of 4-adjacent coordinates of S.
RECURSIVE ReachFrom(_, _)
ReachFrom(S, R) ==
    LET grown == R \cup UNION {CoordNeighbours(S, c) : c \in R}
    IN  IF grown = R THEN R ELSE ReachFrom(S, grown)

\* C26: in a returned FloorLayout every room is joined to the start room by
\* a chain of 4-adjacent rooms of the floor, and in a floor of two or more
\* rooms every room has an exit direction.
C26_FloorConnected ==
    pc = "floor_done" =>
        /\ ReachFrom(FloorCoords, {start_room}) = FloorCoords
        /\ Len(floor.rooms) >= 2 =>
              \A i \in DOMAIN floor.rooms : floor.rooms[i].exits # <<>>

\* A returned floor of four rooms in which the start room has one exit and
\* another room has three.
C26_Witness ==
    /\ pc = "floor_done"
    /\ Len(floor.rooms) = 4
    /\ Len(floor.rooms[1].exits) = 1
    /\ \E i \in DOMAIN floor.rooms : Len(floor.rooms[i].exits) = 3

----------------------------------------------------------------------------
(* src/room/tile.rs, src/room/room.rs *)

DungeonTile == {"Floor", "Wall", "Exit", "StairsUp", "StairsDown"}

\* DungeonRoom::default() with the given grid.
DungeonRoom(rows, columns, tiles) ==
    [tiles |-> tiles,
     exits |-> <<>>,
     pathing |-> <<>>,
     rows |-> rows,
     columns |-> columns,
     exit_directions |-> {},
     stair_up |-> FALSE,
     stair_down |-> FALSE]

\* vec![tile; n]
TileVec(n, tile) == [i \in 0..(n - 1) |-> tile]

TilesLen(r) == Cardinality(DOMAIN r.tiles)

room_idx(r, row, col) == (row * r.columns) + col
room_col(r, idx) == idx % r.columns
room_row(r, idx) == idx \div r.columns

in_bounds(r, row, col) == row >= 0 /\ row < r.rows /\ col >= 0 /\ col < r.columns

is_corner(r, row, col) ==
    <<row, col>> \in {<<0, 0>>, <<r.rows - 1, 0>>, <<0, r.columns - 1>>,
                      <<r.rows - 1, r.columns - 1>>}

\* (from..to).step_by(step) as a sequence, `to` exclusive.
RECURSIVE StepBy(_, _, _)
StepBy(from, to, step) ==
    IF from >= to THEN <<>> ELSE <<from>> \o StepBy(from + step, to, step)

\* DungeonRoom::side_indexes; Top ranges over 0..rows as the code does.
side_indexes(r, direction) ==
    CASE direction = "Top" -> StepBy(0, r.rows, 1)
      [] direction = "Bottom" -> StepBy(TilesLen(r) - r.columns, TilesLen(r), 1)
      [] direction = "Left" -> StepBy(0, TilesLen(r), r.columns)
      [] direction = "Right" -> StepBy(r.columns - 1, TilesLen(r), r.columns)
      [] OTHER -> <<>>

----------------------------------------------------------------------------
(* src/room/pathfinding.rs *)

\* neighbor_floors: the non-Wall neighbours of idx in the order N, W, E, S.
neighbor_floors(r, idx) ==
    LET col == room_col(r, idx)
        row == room_row(r, idx)
    IN  (IF row > 0 /\ r.tiles[idx - r.columns] # "Wall"
            THEN <<idx - r.columns>> ELSE <<>>)
        \o (IF col > 0 /\ r.tiles[idx - 1] # "Wall" THEN <<idx - 1>> ELSE <<>>)
        \o (IF col < r.columns - 1 /\ r.tiles[idx + 1] # "Wall"
               THEN <<idx + 1>> ELSE <<>>)
        \o (IF row < r.rows - 1 /\ r.tiles[idx + r.columns] # "Wall"
               THEN <<idx + r.columns>> ELSE <<>>)

union_hashsets(set1, set2) == set1 \cup set2
have_common_elements(set1, set2) == Cardinality(set1 \cap set2) > 0

eliminate_empty(tile_sets) ==
    LET NonEmpty(ts) == Cardinality(ts) > 0 IN SelectSeq(tile_sets, NonEmpty)

\* The two nested loops of merge_iteration from the pair (idx1, idx2) on
\* (1-based here); result is updated in place as in the code.
RECURSIVE MergePairs(_, _, _, _)
MergePairs(result, merged, idx1, idx2) ==
    IF idx1 > Len(result) THEN <<result, merged>>
    ELSE IF idx2 > Len(result) THEN MergePairs(result, merged, idx1 + 1, idx1 + 2)
    ELSE IF have_common_elements(result[idx1], result[idx2])
         THEN MergePairs([result EXCEPT
                             ![idx1] = union_hashsets(result[idx1], result[idx2]),
                             ![idx2] = {}],
                         TRUE, idx1, idx2 + 1)
         ELSE MergePairs(result, merged, idx1, idx2 + 1)

merge_iteration(tile_sets) == MergePairs(tile_sets, FALSE, 1, 2)

\* A mutant of merge: the sets are returned without merging.
merge_Skipped(tile_sets) == eliminate_empty(tile_sets)

RECURSIVE merge(_)
merge(tile_sets) ==
    LET result == eliminate_empty(tile_sets)
        it == merge_iteration(result)
    IN  IF it[2] THEN merge(it[1]) ELSE it[1]

\* A sequence given as a function, evaluated to a tuple.
Tuple(seq) == SubSeq(seq, 1, Len(seq))

\* The scan loop of connected_tile_sets from tile idx on.
RECURSIVE ScanTiles(_, _, _)
ScanTiles(r, idx, acc) ==
    IF idx >= TilesLen(r) THEN acc
    ELSE IF r.tiles[idx] = "Wall" THEN ScanTiles(r, idx + 1, acc)
    ELSE LET neigh == Range(neighbor_floors(r, idx))
             Hit(t) == acc[t] \cap neigh # {}
             found_existing_set == \E t \in DOMAIN acc : Hit(t)
         IN  ScanTiles(r, idx + 1,
                 IF found_existing_set
                 THEN Tuple([t \in DOMAIN acc |->
                                IF Hit(t) THEN acc[t] \cup {idx} ELSE acc[t]])
                 ELSE Append(acc, {idx}))

connected_tile_sets(r) == merge(ScanTiles(r, 0, <<>>))

----------------------------------------------------------------------------
(* src/room/room.rs: pathing and close_side *)

\* A mutant of MaxByLen: the first of the largest sets instead of the last.
MaxByLen_First(connected_tiles) ==
    CHOOSE k \in DOMAIN connected_tiles :
        /\ \A j \in DOMAIN connected_tiles :
               Cardinality(connected_tiles[j]) <= Cardinality(connected_tiles[k])
        /\ \A j \in DOMAIN connected_tiles :
               j < k => Cardinality(connected_tiles[j]) < Cardinality(connected_tiles[k])

\* Iterator::max_by on the lengths: the position of the last maximal element.
MaxByLen(connected_tiles) ==
    CHOOSE k \in DOMAIN connected_tiles :
        /\ \A j \in DOMAIN connected_tiles :
               Cardinality(connected_tiles[j]) <= Cardinality(connected_tiles[k])
        /\ \A j \in DOMAIN connected_tiles :
               j > k => Cardinality(connected_tiles[j]) < Cardinality(connected_tiles[k])

OnBorder(r, idx) ==
    \/ room_row(r, idx) = 0
    \/ room_row(r, idx) = r.rows - 1
    \/ room_col(r, idx) = 0
    \/ room_col(r, idx) = r.columns - 1

find_exit_directions(r) ==
    {d \in ExitDirections :
        \E i \in DOMAIN r.exits :
            \/ d = "Top" /\ room_row(r, r.exits[i]) = 0
            \/ d = "Left" /\ room_col(r, r.exits[i]) = 0
            \/ d = "Bottom" /\ room_row(r, r.exits[i]) = r.rows - 1
            \/ d = "Right" /\ room_col(r, r.exits[i]) = r.columns - 1}

\* pathing() panics when there is no connected set (unwrap on None).
PathingPanics(r) == connected_tile_sets(r) = <<>>

\* DungeonRoom::pathing when it does not panic.
pathing(r) ==
    LET connected_tiles == connected_tile_sets(r)
        path == SortedSeq(connected_tiles[MaxByLen(connected_tiles)])
        IsBorder(idx) == OnBorder(r, idx)
        r2 == [r EXCEPT !.pathing = path,
                        !.exits = r.exits \o SelectSeq(path, IsBorder)]
    IN  [r2 EXCEPT !.exit_directions = find_exit_directions(r2)]

\* The tiles of side `direction` that close_side turns into Wall.
ClosedTiles(r, direction) ==
    {idx \in Range(side_indexes(r, direction)) : r.tiles[idx] # "Wall"}

\* The room after the for loop of close_side.
CloseLoop(r, direction) ==
    LET closed == ClosedTiles(r, direction)
        Kept(x) == x \notin closed
    IN  [r EXCEPT !.tiles = [i \in DOMAIN r.tiles |->
                               IF i \in closed THEN "Wall" ELSE r.tiles[i]],
                  !.exits = SelectSeq(r.exits, Kept)]

CloseSidePanics(r, direction) ==
    /\ ClosedTiles(r, direction) # {}
    /\ PathingPanics(CloseLoop(r, direction))

\* DungeonRoom::close_side when it does not panic.
close_side(r, direction) ==
    IF ClosedTiles(r, direction) # {}
    THEN pathing(CloseLoop(r, direction))
    ELSE CloseLoop(r, direction)

----------------------------------------------------------------------------
(* The connectivity analysis applied to every small grid *)

MaxGridRows == 3
MaxGridCols == 3

InitPath ==
    /\ pc = "grid"
    /\ \E rows \in 1..MaxGridRows, columns \in 1..MaxGridCols :
           \E tiles \in [0..(rows * columns - 1) -> {"Floor", "Wall"}] :
               room = DungeonRoom(rows, columns, tiles)
    /\ sets = Idle
    /\ cfg = Idle /\ req = Idle /\ loc = Idle /\ arranged = Idle
    /\ dungeon = Idle
    /\ FloorIdle

\* connected_tile_sets(&room)
ConnectedTileSets ==
    /\ pc = "grid"
    /\ sets' = connected_tile_sets(room)
    /\ pc' = "analyzed"
    /\ UNCHANGED <<cfg, req, room, loc, arranged, dungeon>>
    /\ UNCHANGED floorVars

\* room.pathing(), also as create_rooms calls it on the room a builder returned
Pathing ==
    /\ pc \in {"analyzed", "built"}
    /\ IF PathingPanics(room)
       THEN pc' = "panic" /\ room' = room
       ELSE pc' = "pathed" /\ room' = pathing(room)
    /\ UNCHANGED <<cfg, req, loc, arranged, sets, dungeon>>
    /\ UNCHANGED floorVars

NextPath == ConnectedTileSets \/ Pathing

SpecPath == InitPath /\ [][NextPath]_vars

\* room.close_side(direction) on a grid, for any of the seven directions;
\* loc keeps the direction, the indices side_indexes returned and the tiles
\* before the call.
CloseSide ==
    /\ pc = "grid"
    /\ \E direction \in Directions3D :
          /\ loc' = [direction |-> direction,
                     side |-> side_indexes(room, direction),
                     tiles |-> room.tiles]
          /\ IF CloseSidePanics(room, direction)
             THEN pc' = "panic" /\ room' = CloseLoop(room, direction)
             ELSE pc' = "closed" /\ room' = close_side(room, direction)
    /\ UNCHANGED <<cfg, req, arranged, sets, dungeon>>
    /\ UNCHANGED floorVars

NextCloseSide == CloseSide

SpecCloseSide == InitPath /\ [][NextCloseSide]_vars

\* The tile indices of border d of a grid of rows x columns, ascending.
BorderIndexes(rows, columns, d) ==
    CASE d = "Top" -> [k \in 1..columns |-> k - 1]
      [] d = "Bottom" -> [k \in 1..columns |-> (rows - 1) * columns + k - 1]
      [] d = "Left" -> [k \in 1..rows |-> (k - 1) * columns]
      [] d = "Right" -> [k \in 1..rows |-> (k - 1) * columns + columns - 1]
      [] OTHER -> <<>>

\* C24: side_indexes(d) returns the indices of border d in ascending order
\* (none for Up, Down and None), and close_side(d) makes exactly the tiles
\* of border d Wall and leaves the other tiles as they were.
C24_SideIsBorder ==
    pc \in {"closed", "panic"} =>
        LET border == BorderIndexes(room.rows, room.columns, loc.direction)
        IN  /\ loc.side = border
            /\ \A i \in DOMAIN room.tiles :
                  room.tiles[i] = IF i \in Range(border) THEN "Wall" ELSE loc.tiles[i]

\* The non-Wall tile indices of a room.
NonWall(r) == {i \in DOMAIN r.tiles : r.tiles[i] # "Wall"}

\* The non-Wall tiles 4-adjacent (N/E/S/W) to tile i in the grid of r.
Adjacent4(r, i) ==
    {j \in {i - r.columns, i + r.columns} : j \in DOMAIN r.tiles /\ r.tiles[j] # "Wall"}
    \cup {j \in {i - 1, i + 1} :
            /\ j \in DOMAIN r.tiles
            /\ j \div r.columns = i \div r.columns
            /\ r.tiles[j] # "Wall"}

\* The non-Wall tiles joined to the set S by paths of 4-adjacent non-Wall tiles.
RECURSIVE Flood(_, _)
Flood(r, S) ==
    LET grown == S \cup UNION {Adjacent4(r, i) : i \in S}
    IN  IF grown = S THEN S ELSE Flood(r, grown)

\* The 4-connected non-Wall regions of a room.
Regions(r) == {Flood(r, {i}) : i \in NonWall(r)}

\* C7: connected_tile_sets returns non-empty, pairwise disjoint sets whose
\* union is the set of non-Wall tiles; two non-Wall tiles share a set iff a
\* path of 4-adjacent non-Wall tiles joins them; so there is one set per
\* region and the sizes sum to the number of non-Wall tiles.
C7_ConnectedSetsPartition ==
    pc = "analyzed" =>
        /\ \A t \in DOMAIN sets : sets[t] # {}
        /\ \A t, u \in DOMAIN sets : t # u => sets[t] \cap sets[u] = {}
        /\ UNION Range(sets) = NonWall(room)
        /\ \A a \in NonWall(room) :
               {b \in NonWall(room) : \E t \in DOMAIN sets : a \in sets[t] /\ b \in sets[t]}
                   = Flood(room, {a})
        /\ Len(sets) = Cardinality(Regions(room))

\* Two Floor blobs of at least two tiles each, separated by Wall, one of which
\* the scan first split into two sets and the merge joined again.
C7_Witness ==
    /\ pc = "analyzed"
    /\ Len(sets) = 2
    /\ \A t \in DOMAIN sets : Cardinality(sets[t]) >= 2
    /\ Len(ScanTiles(room, 0, <<>>)) > 2

\* C8: after pathing() on a grid with a non-Wall tile, room.pathing is sorted
\* ascending and holds the indices of a returned set of maximal size, the
\* last such set in the order connected_tile_sets returned them.
C8_PathingLastLargest ==
    pc = "pathed" =>
        /\ \A i, j \in DOMAIN room.pathing : i < j => room.pathing[i] < room.pathing[j]
        /\ \E k \in DOMAIN sets :
               /\ Range(room.pathing) = sets[k]
               /\ Len(room.pathing) = Cardinality(sets[k])
               /\ \A j \in DOMAIN sets : Cardinality(sets[j]) <= Cardinality(sets[k])
               /\ \A j \in DOMAIN sets :
                      Cardinality(sets[j]) = Cardinality(sets[k]) => j <= k

\* pathing() chose the later of two sets of the same, maximal size.
C8_Witness ==
    /\ pc = "pathed"
    /\ Len(sets) >= 2
    /\ \E j, k \in DOMAIN sets :
           /\ j < k
           /\ Cardinality(sets[j]) = Cardinality(sets[k])
           /\ Cardinality(sets[k]) >= 2
           /\ Range(room.pathing) = sets[k]

----------------------------------------------------------------------------
(* The requirement handed to a room builder, and the tail of create_rooms *)

\* The exit vectors get_exits can produce: the sub-sequences of
\* <<Right, Left, Top, Bottom>>.
ExitVectors ==
    {(IF "Right" \in S THEN <<"Right">> ELSE <<>>)
     \o (IF "Left" \in S THEN <<"Left">> ELSE <<>>)
     \o (IF "Top" \in S THEN <<"Top">> ELSE <<>>)
     \o (IF "Bottom" \in S THEN <<"Bottom">> ELSE <<>>) : S \in SUBSET ExitDirections}

\* The FloorRoom values of a floor layout after set_stairs.
FloorRooms ==
    {[coords |-> RoomCoordinates(0, 0), exits |-> e, stair_up |-> u, stair_down |-> d] :
        e \in ExitVectors, u \in BOOLEAN, d \in BOOLEAN}

\* The outcome of an operation that may panic.
Ok(r) == [ok |-> TRUE, room |-> r]
Panicked(r) == [ok |-> FALSE, room |-> r]

\* room.close_side(d) for each d of dirs in turn.
RECURSIVE CloseSides(_, _)
CloseSides(r, dirs) ==
    IF dirs = <<>> THEN Ok(r)
    ELSE IF CloseSidePanics(r, Head(dirs)) THEN Panicked(r)
    ELSE CloseSides(close_side(r, Head(dirs)), Tail(dirs))

\* exits_hit.iter().filter(|e| !room_config.exits.contains(e))
NonWanted(exits_hit, wanted) ==
    LET Unwanted(e) == ~Contains(wanted, e) IN SelectSeq(exits_hit, Unwanted)

\* The scan of get_hit_exits from tile idx on: the borders that hold a Floor
\* tile, in the order met; the last row counts as Top and row 0 as Bottom.
RECURSIVE HitScan(_, _, _, _, _)
HitScan(rows, cols, r, idx, directions) ==
    IF idx >= TilesLen(r) THEN directions
    ELSE IF r.tiles[idx] # "Floor" THEN HitScan(rows, cols, r, idx + 1, directions)
    ELSE LET row == room_row(r, idx)
             col == room_col(r, idx)
             d1 == IF row = rows - 1 /\ ~Contains(directions, "Top")
                   THEN Append(directions, "Top") ELSE directions
             d2 == IF row = 0 /\ ~Contains(d1, "Bottom")
                   THEN Append(d1, "Bottom") ELSE d1
             d3 == IF col = cols - 1 /\ ~Contains(d2, "Right")
                   THEN Append(d2, "Right") ELSE d2
             d4 == IF col = 0 /\ ~Contains(d3, "Left")
                   THEN Append(d3, "Left") ELSE d3
         IN  HitScan(rows, cols, r, idx + 1, d4)

\* RoomBuilder::get_hit_exits (the trait's default method).
get_hit_exits(c, r) == HitScan(c.rows, c.cols, r, 0, <<>>)

AllExitsHit(exits, exits_hit) == \A i \in DOMAIN exits : Contains(exits_hit, exits[i])

----------------------------------------------------------------------------
(* src/room/drunkard.rs *)

DrunkardIterations == 2
DrunkardSteps == 2

\* The builders the drunkard specification runs.
DrunkardBuilders ==
    {[kind |-> "Drunkard", rows |-> 3, cols |-> 3,
      iterations |-> DrunkardIterations, steps |-> DrunkardSteps, mode |-> m] :
        m \in {"FindExits", "ReverseCenter"}}

default_tile_type(c) == IF c.mode = "FindExits" THEN "Wall" ELSE "Floor"
dug_tile(c) == IF c.mode = "FindExits" THEN "Floor" ELSE "Wall"
Center(c) == <<c.rows \div 2, c.cols \div 2>>

\* DrunkardRoomBuilder::get_hit_exits (the inherent method create_room calls).
drunkard_get_hit_exits(c, r) == HitScan(c.rows, c.cols, r, 0, <<>>)

FloorIdxs(r) == {i \in DOMAIN r.tiles : r.tiles[i] = "Floor"}

\* Iterator::max_by_key returns the last maximal element, min_by_key the first
\* minimal one; the floors are iterated by ascending index.
MaxByKeyRow(r, S) ==
    CHOOSE i \in S : \A j \in S :
        room_row(r, j) < room_row(r, i) \/ (room_row(r, j) = room_row(r, i) /\ j <= i)
MinByKeyRow(r, S) ==
    CHOOSE i \in S : \A j \in S :
        room_row(r, j) > room_row(r, i) \/ (room_row(r, j) = room_row(r, i) /\ j >= i)
MinByKeyCol(r, S) ==
    CHOOSE i \in S : \A j \in S :
        room_col(r, j) > room_col(r, i) \/ (room_col(r, j) = room_col(r, i) /\ j >= i)
MaxByKeyCol(r, S) ==
    CHOOSE i \in S : \A j \in S :
        room_col(r, j) < room_col(r, i) \/ (room_col(r, j) = room_col(r, i) /\ j <= i)

calculate_next_start_point(c, r, exits_hit, exits_to_hit) ==
    LET NotHit(e) == ~Contains(exits_hit, e)
        not_hit == SelectSeq(exits_to_hit, NotHit)
        floors == FloorIdxs(r)
    IN  IF c.mode = "ReverseCenter" \/ not_hit = <<>> \/ floors = {} THEN Center(c)
        ELSE LET direction == Head(not_hit)
                 result == CASE direction = "Top" -> MaxByKeyRow(r, floors)
                             [] direction = "Bottom" -> MinByKeyRow(r, floors)
                             [] direction = "Left" -> MinByKeyCol(r, floors)
                             [] direction = "Right" -> MaxByKeyCol(r, floors)
             IN  <<room_row(r, result), room_col(r, result)>>

\* The drunkard's position after one draw of rng.gen_range(0..4).
Stagger(p, draw) ==
    CASE draw = 0 -> <<p[1] - 1, p[2]>>
      [] draw = 1 -> <<p[1] + 1, p[2]>>
      [] draw = 2 -> <<p[1], p[2] - 1>>
      [] OTHER -> <<p[1], p[2] + 1>>

InitDrunkard ==
    /\ pc = "drunk_loop"
    /\ cfg \in DrunkardBuilders
    /\ req \in FloorRooms
    /\ room = [DungeonRoom(cfg.rows, cfg.cols,
                           TileVec(cfg.rows * cfg.cols, default_tile_type(cfg)))
                  EXCEPT !.stair_up = req.stair_up, !.stair_down = req.stair_down]
    /\ loc = [next_start_point |-> Center(cfg),
              exits_hit |-> <<>>,
              all_exits_hit |-> FALSE,
              iters |-> 0,
              drunkard_pos |-> Center(cfg),
              distance_staggered |-> 0]
    /\ arranged = Idle
    /\ sets = Idle
    /\ dungeon = Idle
    /\ FloorIdle

\* The while loop of create_room is entered once more: a walk starts.  iters
\* is only ever compared with iterations, so it is counted up to that value.
DrunkardNextWalk ==
    /\ pc = "drunk_loop"
    /\ ~loc.all_exits_hit \/ loc.iters < cfg.iterations
    /\ loc' = [loc EXCEPT !.iters = Min(loc.iters + 1, cfg.iterations),
                          !.drunkard_pos = loc.next_start_point,
                          !.distance_staggered = 0]
    /\ pc' = "drunk_walk"
    /\ UNCHANGED <<cfg, req, room, arranged, sets, dungeon>>
    /\ UNCHANGED floorVars

\* One turn of the loop of drunkard(); when the walk ends, create_room
\* recomputes the hit exits and the next start point.
DrunkardStagger ==
    /\ pc = "drunk_walk"
    /\ IF loc.drunkard_pos[1] < 0 \/ loc.drunkard_pos[2] < 0
       THEN pc' = "panic" /\ UNCHANGED <<room, loc>>
       ELSE \E draw \in 0..3 :
              LET dug == [room EXCEPT
                            !.tiles[room_idx(room, loc.drunkard_pos[1],
                                             loc.drunkard_pos[2])] = dug_tile(cfg)]
                  p == Stagger(loc.drunkard_pos, draw)
                  distance == loc.distance_staggered + 1
                  break == \/ p[1] < 0 \/ p[2] < 0
                           \/ ~in_bounds(room, p[1], p[2])
                           \/ is_corner(room, p[1], p[2])
                           \/ distance > cfg.steps
                  hit == drunkard_get_hit_exits(cfg, dug)
              IN  /\ room' = dug
                  /\ IF break
                     THEN /\ pc' = "drunk_loop"
                          /\ loc' = [loc EXCEPT
                                 !.drunkard_pos = p,
                                 !.exits_hit = hit,
                                 !.next_start_point =
                                     calculate_next_start_point(cfg, dug, hit, req.exits),
                                 !.all_exits_hit = AllExitsHit(req.exits, hit)]
                     ELSE /\ pc' = "drunk_walk"
                          /\ loc' = [loc EXCEPT !.drunkard_pos = p,
                                                !.distance_staggered = distance]
    /\ UNCHANGED <<cfg, req, arranged, sets, dungeon>>
    /\ UNCHANGED floorVars

\* The while loop has ended: the unwanted hit sides are closed and the room
\* is returned.
DrunkardReturn ==
    /\ pc = "drunk_loop"
    /\ ~(~loc.all_exits_hit \/ loc.iters < cfg.iterations)
    /\ LET closed == CloseSides(room, NonWanted(loc.exits_hit, req.exits))
       IN  /\ room' = closed.room
           /\ pc' = IF closed.ok THEN "built" ELSE "panic"
    /\ UNCHANGED <<cfg, req, loc, arranged, sets, dungeon>>
    /\ UNCHANGED floorVars

----------------------------------------------------------------------------
(* src/dungeon/room.rs and src/dungeon/dungeon_builder.rs *)

DungeonCoordinates(fl, row, col) == [floor |-> fl, col |-> col, row |-> row]

\* ArrangedDungeonRoom::from
ArrangedDungeonRoom(r) ==
    [tiles |-> r.tiles,
     pathing |-> r.pathing,
     rows |-> r.rows,
     columns |-> r.columns,
     dungeon_coords |-> DungeonCoordinates(0, 0, 0),
     entry |-> "None",
     exits |-> <<>>,
     rotation |-> 0,
     stair_up |-> r.stair_up,
     stair_down |-> r.stair_down]

border_path_tiles(a, direction) ==
    LET OnSide(u) ==
            CASE direction = "Top" -> u \div a.columns = 0
              [] direction = "Bottom" -> u \div a.columns = a.rows - 1
              [] direction = "Right" -> u % a.columns = a.columns - 1
              [] direction = "Left" -> u % a.columns = 0
              [] OTHER -> FALSE
    IN  SelectSeq(a.pathing, OnSide)

\* The orders in which a Vec collected from a HashSet can list its elements.
Orders(S) == {o \in [1..Cardinality(S) -> S] : \A d \in S : \E i \in DOMAIN o : o[i] = d}

\* The for loop of set_exits indexes an empty tile list: it panics.
RECURSIVE SetExitsLoopPanics(_, _)
SetExitsLoopPanics(a, directions) ==
    /\ directions # <<>>
    /\ \/ border_path_tiles(a, Head(directions)) = <<>>
       \/ SetExitsLoopPanics(a, Tail(directions))

RECURSIVE SetExitsLoop(_, _)
SetExitsLoop(a, directions) ==
    IF directions = <<>> THEN a
    ELSE LET tiles == border_path_tiles(a, Head(directions))
             center_tile == tiles[(Len(tiles) \div 2) + 1]
         IN  SetExitsLoop([a EXCEPT !.tiles[center_tile] = "Exit",
                                    !.exits = Append(@, <<center_tile, Head(directions)>>)],
                          Tail(directions))

HasExitTile(a) == \E i \in DOMAIN a.tiles : a.tiles[i] = "Exit"

SetExitsPanics(a, directions) ==
    ~HasExitTile(a) /\ SetExitsLoopPanics(a, directions)

\* DungeonBuilder::set_exits when it does not panic.
set_exits(a, directions) ==
    IF HasExitTile(a) \/ directions = <<>> THEN a ELSE SetExitsLoop(a, directions)

\* The positions of pathing that skip(target).step_by(2) visits.
RECURSIVE FirstFloorFrom(_, _)
FirstFloorFrom(a, k) ==
    IF k > Len(a.pathing) THEN -1
    ELSE IF a.tiles[a.pathing[k]] = "Floor" THEN a.pathing[k]
    ELSE FirstFloorFrom(a, k + 2)

\* DungeonBuilder::set_stairs
set_stairs(a, stair_tile, target_path_tile) ==
    LET target_tile == FirstFloorFrom(a, target_path_tile + 1)
    IN  IF target_tile > 0 THEN [a EXCEPT !.tiles[target_tile] = stair_tile] ELSE a

set_all_stairs(a) ==
    LET target_path_tile == Len(a.pathing) \div 3
        a1 == IF a.stair_down THEN set_stairs(a, "StairsDown", target_path_tile) ELSE a
        t1 == IF a.stair_down THEN target_path_tile * 2 ELSE target_path_tile
    IN  IF a.stair_up THEN set_stairs(a1, "StairsUp", t1) ELSE a1

arrange_room(a, directions) == set_all_stairs(set_exits(a, directions))

\* The rest of one turn of the loop of create_rooms after room.pathing().
ArrangeRoom ==
    /\ pc = "pathed"
    /\ \E directions \in Orders(room.exit_directions) :
         LET a == ArrangedDungeonRoom(room)
         IN  IF SetExitsPanics(a, directions)
             THEN pc' = "panic" /\ UNCHANGED arranged
             ELSE /\ pc' = "arranged"
                  /\ arranged' = [arrange_room(a, directions) EXCEPT
                         !.dungeon_coords =
                             DungeonCoordinates(0, req.coords.row, req.coords.col)]
    /\ UNCHANGED <<cfg, req, room, loc, sets, dungeon>>
    /\ UNCHANGED floorVars

\* C27: after the pathing() of create_rooms every entry of room.exits is a
\* tile of the pathing set and every direction of exit_directions has a
\* pathing tile on its border, so set_exits finds a tile for each direction.
C27_ExitsInPathing ==
    pc = "pathed" =>
        /\ Range(room.exits) \subseteq Range(room.pathing)
        /\ \A d \in room.exit_directions :
              border_path_tiles(ArrangedDungeonRoom(room), d) # <<>>

NextDrunkard ==
    \/ DrunkardNextWalk
    \/ DrunkardStagger
    \/ DrunkardReturn
    \/ Pathing
    \/ ArrangeRoom

SpecDrunkard == InitDrunkard /\ [][NextDrunkard]_vars

\* The rooms a RoomBuilder supplied by the caller of create_rooms returns in
\* the create-rooms specification: every grid of these sizes of Floor, Wall
\* and Exit tiles.
CustomRoomSizes == {<<1, 2>>, <<1, 3>>, <<2, 2>>}

InitCreateRooms ==
    /\ pc = "built"
    /\ cfg = [kind |-> "Custom"]
    /\ req \in {r \in FloorRooms : r.exits = <<>>}
    /\ \E size \in CustomRoomSizes :
         \E tiles \in [0..(size[1] * size[2] - 1) -> {"Floor", "Wall", "Exit"}] :
             room = [DungeonRoom(size[1], size[2], tiles) EXCEPT
                        !.stair_up = req.stair_up,
                        !.stair_down = req.stair_down]
    /\ loc = Idle
    /\ arranged = Idle
    /\ sets = Idle
    /\ dungeon = Idle
    /\ FloorIdle

NextCreateRooms ==
    \/ Pathing
    \/ ArrangeRoom

SpecCreateRooms == InitCreateRooms /\ [][NextCreateRooms]_vars

\* The tile a scan of the positions offset, offset + 2, ... of pathing
\* (counted from 0) selects: the first one that is plain Floor, -1 if none.
ScanFound(tiles, path, offset) ==
    LET hits == {k \in 0..(Len(path) - 1) :
                    /\ k >= offset
                    /\ (k - offset) % 2 = 0
                    /\ tiles[path[k + 1]] = "Floor"}
    IN  IF hits = {} THEN -1
        ELSE path[(CHOOSE k \in hits : \A j \in hits : k <= j) + 1]

\* The arranged room of the pathed room in room as set_all_stairs receives
\* it (the tiles set_exits leaves do not depend on the order of the
\* directions).
BeforeStairs ==
    set_exits(ArrangedDungeonRoom(room),
              CHOOSE directions \in Orders(room.exit_directions) : TRUE)

\* tiles with the tiles of kind stair_tile put back to Floor.
WithoutStair(tiles, stair_tile) ==
    [t \in DOMAIN tiles |-> IF tiles[t] = stair_tile THEN "Floor" ELSE tiles[t]]

\* C16: in an arranged room with pathing of length p, a StairsDown tile is
\* the first plain Floor tile at the pathing positions p/3, p/3 + 2, ... and
\* a StairsUp tile is the first plain Floor tile at the pathing positions
\* 2*(p/3), 2*(p/3) + 2, ..., whichever stair flags are set.
C16_StairScanOffsets ==
    pc = "arranged" =>
        LET p == Len(arranged.pathing)
            down == ScanFound(BeforeStairs.tiles, arranged.pathing, p \div 3)
            up == ScanFound(WithoutStair(arranged.tiles, "StairsUp"),
                            arranged.pathing, 2 * (p \div 3))
        IN  \A t \in DOMAIN arranged.tiles :
                /\ arranged.tiles[t] = "StairsDown" => t = down
                /\ arranged.tiles[t] = "StairsUp" => t = up

\* tiles with the tile the scan from offset selects made stair_tile; tiles
\* itself when the scan selects none.
StairPlaced(tiles, path, stair_tile, offset) ==
    IF ScanFound(tiles, path, offset) = -1 THEN tiles
    ELSE [tiles EXCEPT ![ScanFound(tiles, path, offset)] = stair_tile]

\* C17: each call of set_stairs in set_all_stairs (StairsDown from p/3 when
\* stair_down is set, then StairsUp from the offset set_all_stairs passes
\* when stair_up is set) makes the plain Floor tile its scan finds the stair
\* tile, whatever its index, and changes nothing else; when the scan finds
\* none the tiles stay as they were.
C17_StairPlacedIffFound ==
    pc = "arranged" =>
        LET p == Len(arranged.pathing)
            down == IF arranged.stair_down
                    THEN StairPlaced(BeforeStairs.tiles, arranged.pathing,
                                     "StairsDown", p \div 3)
                    ELSE BeforeStairs.tiles
            up_offset == IF arranged.stair_down THEN 2 * (p \div 3) ELSE p \div 3
        IN  arranged.tiles =
                IF arranged.stair_up
                THEN StairPlaced(down, arranged.pathing, "StairsUp", up_offset)
                ELSE down

\* The borders on which the index set S of room r has a tile: Top is row 0,
\* Bottom the last row, Left column 0 and Right the last column.
BorderTouches(r, S) ==
    {d \in ExitDirections : \E i \in S :
        CASE d = "Top" -> room_row(r, i) = 0
          [] d = "Bottom" -> room_row(r, i) = r.rows - 1
          [] d = "Left" -> room_col(r, i) = 0
          [] d = "Right" -> room_col(r, i) = r.columns - 1}

\* C1: when a CellularAutomata or DrunkardsWalk builder has returned and
\* pathing() has been computed on the returned room, the borders on which the
\* pathing set has a tile are exactly the requested exits.
C1_PathingTouchesRequested ==
    (pc = "pathed" /\ cfg.kind \in {"Automata", "Drunkard"})
        => BorderTouches(room, Range(room.pathing)) = Range(req.exits)

\* C21: whenever the loop of a walk is about to carve and move, the walk has
\* made fewer than `steps` moves (so it makes at most `steps`), and the cell
\* it carves has non-negative coordinates, lies inside the grid and is not
\* a corner.
C21_WalkBounded ==
    pc = "drunk_walk" =>
        /\ loc.distance_staggered < cfg.steps
        /\ loc.drunkard_pos[1] >= 0
        /\ loc.drunkard_pos[2] >= 0
        /\ in_bounds(room, loc.drunkard_pos[1], loc.drunkard_pos[2])
        /\ ~is_corner(room, loc.drunkard_pos[1], loc.drunkard_pos[2])

\* The step leaves the while loop of DrunkardsWalk create_room.
LoopLeft == pc = "drunk_loop" /\ pc' \in {"built", "panic"}

\* The walks run and the borders hit when the loop is left: at least
\* `iterations` walks have run and every required exit is a border that holds
\* a Floor tile (Top is row 0, Bottom the last row).
LeftAfterHits ==
    /\ loc.iters = cfg.iterations
    /\ Range(req.exits) \subseteq BorderTouches(room, FloorIdxs(room))

\* The step changes no tile but the one the walk carves.
OnlyCarves ==
    \A t \in DOMAIN room.tiles :
        (room'.tiles[t] # room.tiles[t]) =>
            /\ pc = "drunk_walk"
            /\ t = room_idx(room, loc.drunkard_pos[1], loc.drunkard_pos[2])

\* C20: DrunkardsWalk create_room leaves its loop only when at least
\* `iterations` walks have run and every required exit is among the hit
\* borders, and until the loop is left no border is sealed: a step changes
\* no tile but the one the walk carves.
C20_LoopLeftAfterHits ==
    [][/\ LoopLeft => LeftAfterHits
       /\ (pc \in {"drunk_loop", "drunk_walk"} /\ ~LoopLeft) => OnlyCarves]_vars

----------------------------------------------------------------------------
(* src/map/math.rs and src/room/grid.rs *)

Rect(row1, row2, col1, col2) == [row1 |-> row1, row2 |-> row2, col1 |-> col1, col2 |-> col2]
Position(row, col) == [row |-> row, col |-> col]
center(rect) == Position((rect.row1 + rect.row2) \div 2, (rect.col1 + rect.col2) \div 2)
Dimension(vertical, horizontal) == [vertical |-> vertical, horizontal |-> horizontal]

\* The grid builders the grid specification runs: rects of R x C
\* sub-rectangles, square and not, of two sub-rectangle sizes.
GridBuilders ==
    {[kind |-> "Grid", rect_size |-> sz, rects |-> Dimension(v, h)] :
        sz \in {Dimension(1, 1), Dimension(2, 3)}, v \in 1..2, h \in 1..2}
    \cup {[kind |-> "Grid", rect_size |-> Dimension(1, 1), rects |-> d] :
            d \in {Dimension(1, 3), Dimension(3, 1), Dimension(3, 3)}}

grid_get_rows(c) == c.rect_size.vertical * c.rects.vertical + c.rects.vertical + 1
grid_get_cols(c) == c.rect_size.horizontal * c.rects.horizontal + c.rects.horizontal + 1
total_rects(c) == c.rects.horizontal * c.rects.vertical

\* GridRoomBuilder::create_rects: rect k (from 0) is at index k + 1.
create_rects(c) ==
    [k \in 1..total_rects(c) |->
        LET row == (k - 1) \div c.rects.horizontal
            col == (k - 1) % c.rects.horizontal
            next_row_position == 1 + (row * (c.rect_size.vertical + 1))
            next_col_position == 1 + (col * (c.rect_size.horizontal + 1))
        IN  Rect(next_row_position, next_row_position + c.rect_size.vertical - 1,
                 next_col_position, next_col_position + c.rect_size.horizontal - 1)]

\* GridRoomBuilder::fill on an all-Wall room.
fill(c, rects) ==
    LET walls == DungeonRoom(grid_get_rows(c), grid_get_cols(c),
                             TileVec(grid_get_cols(c) * grid_get_rows(c), "Wall"))
        InRect(i) == \E k \in DOMAIN rects :
                        /\ room_row(walls, i) \in rects[k].row1..rects[k].row2
                        /\ room_col(walls, i) \in rects[k].col1..rects[k].col2
    IN  [walls EXCEPT !.tiles = [i \in DOMAIN walls.tiles |->
                                    IF InRect(i) THEN "Floor" ELSE "Wall"]]


possible_doorway_rects(c, align, iteration) ==
    IF align = "Horizontally"
    THEN StepBy(iteration * c.rects.horizontal,
                iteration * c.rects.horizontal + c.rects.horizontal, 1)
    ELSE StepBy(iteration, total_rects(c), c.rects.vertical)


doorways_amount(c, align) ==
    IF align = "Vertically" THEN c.rects.vertical - 1 ELSE c.rects.horizontal - 1

\* The results find_doorway_connections can return: one rect index drawn from
\* the selection of every iteration.
DoorwayConnections(c, align) ==
    {d \in [1..doorways_amount(c, align) -> 0..(total_rects(c) * 2)] :
        \A i \in DOMAIN d : Contains(possible_doorway_rects(c, align, i - 1), d[i])}

\* Sets the tiles at the given <<row, col>> positions to Floor.
Dig(r, positions) ==
    [r EXCEPT !.tiles = [i \in DOMAIN r.tiles |->
        IF \E p \in positions : room_idx(r, p[1], p[2]) = i THEN "Floor" ELSE r.tiles[i]]]


\* The tiles the first if of the loop of connect opens for rect idx.
RightDoor(c, rect, wide) ==
    {<<center(rect).row, rect.col2 + 1>>}
    \cup (IF wide THEN {<<rect.row1 + i, rect.col2 + 1>> : i \in 0..(c.rect_size.vertical - 1)}
          ELSE {})

\* The tiles the second if of the loop of connect opens for rect idx.
BottomDoor(c, rect, wide) ==
    {<<rect.row2 + 1, center(rect).col>>}
    \cup (IF wide THEN {<<rect.row2 + 1, rect.col1 + i>> : i \in 0..(c.rect_size.horizontal - 1)}
          ELSE {})

OpensRight(c, align, doorways, idx) ==
    \/ align = "Horizontally" /\ idx % c.rects.horizontal # c.rects.horizontal - 1
    \/ align = "Vertically" /\ Contains(doorways, idx)

OpensBottom(c, align, doorways, idx) ==
    \/ align = "Vertically" /\ idx < c.rects.horizontal * (c.rects.vertical - 1)
    \/ align = "Horizontally" /\ Contains(doorways, idx)

\* The tiles one turn of the loop of connect opens.
ConnectDoors(c, l, rect, draw1, draw2) ==
    (IF OpensRight(c, l.align, l.doorways, l.idx) THEN RightDoor(c, rect, draw1 = 0) ELSE {})
    \cup (IF OpensBottom(c, l.align, l.doorways, l.idx) THEN BottomDoor(c, rect, draw2 = 0)
          ELSE {})

side_rects(c, direction, rects) ==
    LET OnSide(r) ==
            CASE direction = "Top" -> r.row1 = 1
              [] direction = "Bottom" -> r.row2 = grid_get_rows(c) - 2
              [] direction = "Left" -> r.col1 = 1
              [] direction = "Right" -> r.col2 = grid_get_cols(c) - 2
              [] OTHER -> FALSE
    IN  SelectSeq(rects, OnSide)

side_center_rect(c, direction, rects) ==
    LET side == side_rects(c, direction, rects) IN side[(Len(side) \div 2) + 1]

\* The tile GridRoomBuilder::set_exits turns into Exit for one direction.
grid_exit_idx(c, r, direction, rects) ==
    LET rect == side_center_rect(c, direction, rects)
    IN  CASE direction = "Top" -> room_idx(r, rect.row1 - 1, center(rect).col)
          [] direction = "Bottom" -> room_idx(r, rect.row2 + 1, center(rect).col)
          [] direction = "Left" -> room_idx(r, center(rect).row, rect.col1 - 1)
          [] direction = "Right" -> room_idx(r, center(rect).row, rect.col2 + 1)
          [] OTHER -> 0

\* GridRoomBuilder::set_exits
grid_set_exits(c, r, exits, rects) ==
    [r EXCEPT !.tiles = [i \in DOMAIN r.tiles |->
        IF \E k \in DOMAIN exits : grid_exit_idx(c, r, exits[k], rects) = i
        THEN "Exit" ELSE r.tiles[i]]]

InitGrid ==
    /\ pc = "grid_align"
    /\ cfg \in GridBuilders
    /\ req \in FloorRooms
    /\ room = fill(cfg, create_rects(cfg))
    /\ loc = [align |-> "None", doorways |-> <<>>, idx |-> 0]
    /\ arranged = Idle
    /\ sets = Idle
    /\ dungeon = Idle
    /\ FloorIdle

\* The head of connect: the alignment and the doorways are drawn.
GridAlign ==
    /\ pc = "grid_align"
    /\ \E align \in {"Vertically", "Horizontally"} :
         \E doorways \in DoorwayConnections(cfg, align) :
            loc' = [align |-> align, doorways |-> doorways, idx |-> 0]
    /\ pc' = "grid_connect"
    /\ UNCHANGED <<cfg, req, room, arranged, sets, dungeon>>
    /\ UNCHANGED floorVars

\* One turn of the loop of connect, for rect loc.idx.
GridConnect ==
    /\ pc = "grid_connect"
    /\ loc.idx < total_rects(cfg)
    /\ \E draw1 \in 0..3, draw2 \in 0..3 :
         room' = Dig(room, ConnectDoors(cfg, loc, create_rects(cfg)[loc.idx + 1],
                                        draw1, draw2))
    /\ loc' = [loc EXCEPT !.idx = loc.idx + 1]
    /\ UNCHANGED <<pc, cfg, req, arranged, sets, dungeon>>
    /\ UNCHANGED floorVars

\* connect has ended: create_room sets the exits, computes the pathing, copies
\* the stair flags and returns the room.
GridReturn ==
    /\ pc = "grid_connect"
    /\ ~(loc.idx < total_rects(cfg))
    /\ LET exited == grid_set_exits(cfg, room, req.exits, create_rects(cfg))
       IN  IF PathingPanics(exited)
           THEN pc' = "panic" /\ room' = exited
           ELSE /\ pc' = "built"
                /\ room' = [pathing(exited) EXCEPT !.stair_down = req.stair_down,
                                                   !.stair_up = req.stair_up]
    /\ UNCHANGED <<cfg, req, loc, arranged, sets, dungeon>>
    /\ UNCHANGED floorVars

NextGrid ==
    \/ GridAlign
    \/ GridConnect
    \/ GridReturn
    \/ Pathing
    \/ ArrangeRoom

SpecGrid == InitGrid /\ [][NextGrid]_vars

\* The entries of the exits list of an arranged room with tile i, and those
\* with direction d.
EntriesAt(a, i) == {k \in DOMAIN a.exits : a.exits[k][1] = i}
EntriesToward(a, d) == {k \in DOMAIN a.exits : a.exits[k][2] = d}

\* C30: in an arranged room every entry (i, d) of exits names an Exit tile
\* on border d, every Exit tile has exactly one entry, and every exit
\* direction of the room has exactly one entry.
C30_ExitsListMatchesTiles ==
    pc = "arranged" =>
        /\ \A k \in DOMAIN arranged.exits :
              /\ arranged.tiles[arranged.exits[k][1]] = "Exit"
              /\ arranged.exits[k][2] \in BorderTouches(room, {arranged.exits[k][1]})
        /\ \A i \in DOMAIN arranged.tiles :
              arranged.tiles[i] = "Exit" => Cardinality(EntriesAt(arranged, i)) = 1
        /\ \A d \in room.exit_directions :
              Cardinality(EntriesToward(arranged, d)) = 1

\* The tiles of the outer border of room r.
BorderIdxs(r) == {i \in DOMAIN r.tiles : OnBorder(r, i)}

\* The border tiles in front of the center sub-rectangle of side d: those of
\* side d within the rows or columns of the middle sub-rectangle of that side.
InFrontOfCenter(c, r, d) ==
    LET mid_col == c.rects.horizontal \div 2
        mid_row == c.rects.vertical \div 2
        cols == (1 + mid_col * (c.rect_size.horizontal + 1))
                    ..((mid_col + 1) * (c.rect_size.horizontal + 1) - 1)
        rows == (1 + mid_row * (c.rect_size.vertical + 1))
                    ..((mid_row + 1) * (c.rect_size.vertical + 1) - 1)
    IN  {i \in DOMAIN r.tiles :
            CASE d = "Top" -> room_row(r, i) = 0 /\ room_col(r, i) \in cols
              [] d = "Bottom" -> room_row(r, i) = r.rows - 1 /\ room_col(r, i) \in cols
              [] d = "Left" -> room_col(r, i) = 0 /\ room_row(r, i) \in rows
              [] d = "Right" -> room_col(r, i) = r.columns - 1 /\ room_row(r, i) \in rows}

\* C3: the room a Grid builder returns has, on every requested border, exactly
\* one Exit tile, in front of the center sub-rectangle of that side, and
\* every other tile of the outer border is Wall.
C3_GridBorderExits ==
    (pc = "built" /\ cfg.kind = "Grid") =>
        /\ \A d \in Range(req.exits) :
              \E i \in InFrontOfCenter(cfg, room, d) :
                 /\ room.tiles[i] = "Exit"
                 /\ \A j \in BorderIdxs(room) :
                       (d \in BorderTouches(room, {j}) /\ room.tiles[j] = "Exit") => j = i
        /\ \A j \in BorderIdxs(room) :
              room.tiles[j] # "Wall" =>
                  /\ room.tiles[j] = "Exit"
                  /\ \E d \in Range(req.exits) : j \in InFrontOfCenter(cfg, room, d)

\* C4: once connect has ended, the Floor tiles of all sub-rectangles form one
\* single 4-connected region.
C4_GridConnected ==
    (pc = "grid_connect" /\ cfg.kind = "Grid" /\ loc.idx = total_rects(cfg)) =>
        Cardinality(Regions(room)) = 1

\* C9: in an arranged room every Exit, StairsUp or StairsDown tile is in the
\* room's pathing, and the pathing is a largest 4-connected non-Wall region
\* of the room's final tiles.
C9_ArrangedTilesInPathing ==
    pc = "arranged" =>
        /\ \A i \in DOMAIN arranged.tiles :
              arranged.tiles[i] \in {"Exit", "StairsUp", "StairsDown"}
                  => i \in Range(arranged.pathing)
        /\ Range(arranged.pathing) \in Regions(arranged)
        /\ \A R \in Regions(arranged) :
              Cardinality(R) <= Cardinality(Range(arranged.pathing))

----------------------------------------------------------------------------
(* src/room/math.rs (URect) and src/room/rectangles.rs *)

URect(row1, row2, col1, col2) == [row1 |-> row1, row2 |-> row2, col1 |-> col1, col2 |-> col2]

\* URect::intersect
intersect(a, b) ==
    a.row1 <= b.row2 /\ a.row2 >= b.row1 /\ a.col1 <= b.col2 /\ a.col2 >= b.col1

\* UPosition's Ord: by (row, col).
PositionLeq(p, q) == p.row < q.row \/ (p.row = q.row /\ p.col <= q.col)

\* The stable sort of sort_by(|r1, r2| r1.center().cmp(&r2.center())).
RECURSIVE SortByCenter(_)
SortByCenter(rects) ==
    IF rects = <<>> THEN <<>>
    ELSE LET sorted == SortByCenter(SubSeq(rects, 1, Len(rects) - 1))
             last == rects[Len(rects)]
             NotAfter(r) == PositionLeq(center(r), center(last))
             After(r) == ~PositionLeq(center(r), center(last))
         IN  SelectSeq(sorted, NotAfter) \o <<last>> \o SelectSeq(sorted, After)

\* Granularity::size_and_number_ranges
size_and_number_ranges(granularity, rows, cols) ==
    LET base == Min(rows, cols)
        t == CASE granularity = "Small" -> <<base \div 8, base \div 5, 8>>
               [] granularity = "Medium" -> <<base \div 6, base \div 4, 6>>
               [] granularity = "Large" -> <<base \div 4, base \div 3, 3>>
               [] granularity = "Full" -> <<base, base, 1>>
    IN  <<Max(t[1], 1), Max(t[2], 2), t[3]>>

RectRetries == 10

\* The builders the rectangles specification runs.
RectanglesBuilders ==
    {[kind |-> "Rectangles", rows |-> d[1], cols |-> d[2], granularity |-> "Full"] :
        d \in {<<3, 3>>, <<3, 5>>, <<5, 3>>}}
    \cup {[kind |-> "Rectangles", rows |-> 6, cols |-> 5, granularity |-> "Large"],
          [kind |-> "Rectangles", rows |-> 5, cols |-> 5, granularity |-> "Medium"]}

RangeMin(c) == size_and_number_ranges(c.granularity, c.rows, c.cols)[1]
RangeMax(c) == size_and_number_ranges(c.granularity, c.rows, c.cols)[2]
RectNumber(c) == size_and_number_ranges(c.granularity, c.rows, c.cols)[3]

\* rng.gen_range(low..high) panics on an empty range.
GenRange(low, high) == low..(high - 1)

\* create_rect panics when one of its four ranges is empty (or when the
\* subtraction of the sizes underflows).
CreateRectPanics(c) ==
    \/ RangeMin(c) >= RangeMax(c)
    \/ \E size \in GenRange(RangeMin(c), RangeMax(c)) :
          c.cols - 1 - size <= 1 \/ c.rows - 1 - size <= 1

\* The rectangles create_rect can draw.
CreateRect(c) ==
    {URect(placement_rows, placement_rows + row_size,
           placement_cols, placement_cols + col_size) :
        <<col_size, row_size, placement_cols, placement_rows>> \in
            {q \in GenRange(RangeMin(c), RangeMax(c)) \X GenRange(RangeMin(c), RangeMax(c))
                   \X GenRange(1, c.cols - 1) \X GenRange(1, c.rows - 1) :
                q[3] < c.cols - 1 - q[1] /\ q[4] < c.rows - 1 - q[2]}}

\* new_rect: the drawn rectangle is refused when it intersects an existing one.
Refused(rect, existing_rects) ==
    \E k \in DOMAIN existing_rects : intersect(rect, existing_rects[k])

\* The unit rectangle create_room adds for a requested exit.
ExitRect(r, exit) ==
    LET side_tile_idxes == side_indexes(r, exit)
        side_center == side_tile_idxes[(Len(side_tile_idxes) \div 2) + 1]
        col == room_col(r, side_center)
        row == room_row(r, side_center)
    IN  URect(row, row, col, col)

WithExitRects(r, rects, exits) ==
    rects \o [k \in DOMAIN exits |-> ExitRect(r, exits[k])]

apply_vertical_tunnel(r, row1, row2, col) ==
    Dig(r, {<<row, col>> : row \in Min(row1, row2)..Max(row1, row2)})

apply_horizontal_tunnel(r, col1, col2, row) ==
    Dig(r, {<<row, col>> : col \in Min(col1, col2)..Max(col1, col2)})

FillRect(r, rect) ==
    Dig(r, {<<row, col>> : row \in rect.row1..rect.row2, col \in rect.col1..rect.col2})

\* One turn of the loop of fill_and_build_corridors for ordered_rects[i]
\* (1-based), with the draw of gen_range(0..=1).
FillAndTunnel(r, ordered_rects, i, draw) ==
    LET filled == FillRect(r, ordered_rects[i])
    IN  IF i = 1 THEN filled
        ELSE LET prev == center(ordered_rects[i - 1])
                 new == center(ordered_rects[i])
             IN  IF draw = 1
                 THEN apply_vertical_tunnel(
                          apply_horizontal_tunnel(filled, prev.col, new.col, prev.row),
                          prev.row, new.row, new.col)
                 ELSE apply_horizontal_tunnel(
                          apply_vertical_tunnel(filled, prev.row, new.row, prev.col),
                          prev.col, new.col, new.row)

InitRect ==
    /\ pc = "rect_rects"
    /\ cfg \in RectanglesBuilders
    /\ req \in FloorRooms
    /\ room = [DungeonRoom(cfg.rows, cfg.cols, TileVec(cfg.cols * cfg.rows, "Wall"))
                  EXCEPT !.stair_down = req.stair_down, !.stair_up = req.stair_up]
    /\ loc = [rects |-> <<>>, retries |-> 0, k |-> 0, i |-> 0]
    /\ arranged = Idle
    /\ sets = Idle
    /\ dungeon = Idle
    /\ FloorIdle

\* while rects.len() < number && retries < 10
RectLoopCondition == Len(loc.rects) < RectNumber(cfg) /\ loc.retries < RectRetries

\* The exit rectangles are added and the rectangles sorted by their center,
\* in create_room and again in fill_and_build_corridors.
RectsSorted(rects) == SortByCenter(SortByCenter(WithExitRects(room, rects, req.exits)))

\* Granularity Full: create_rects returns the one rectangle inside the border.
RectFull ==
    /\ pc = "rect_rects"
    /\ cfg.granularity = "Full"
    /\ loc' = [loc EXCEPT !.rects = RectsSorted(<<URect(1, cfg.rows - 2, 1, cfg.cols - 2)>>)]
    /\ pc' = "rect_fill"
    /\ UNCHANGED <<cfg, req, room, arranged, sets, dungeon>>
    /\ UNCHANGED floorVars

\* One turn of the for loop of create_rects: new_rect draws a rectangle.
RectNew ==
    /\ pc = "rect_rects"
    /\ cfg.granularity # "Full"
    /\ loc.k > 0 \/ RectLoopCondition
    /\ IF CreateRectPanics(cfg)
       THEN pc' = "panic" /\ UNCHANGED loc
       ELSE /\ \E rect \in CreateRect(cfg) :
                 loc' = [loc EXCEPT
                    !.rects = IF Refused(rect, loc.rects) THEN @ ELSE Append(@, rect),
                    !.retries = IF Refused(rect, loc.rects) THEN @ + 1 ELSE @,
                    !.k = IF loc.k + 1 = RectNumber(cfg) THEN 0 ELSE loc.k + 1]
            /\ UNCHANGED pc
    /\ UNCHANGED <<cfg, req, room, arranged, sets, dungeon>>
    /\ UNCHANGED floorVars

\* The while loop of create_rects has ended.
RectLoopEnd ==
    /\ pc = "rect_rects"
    /\ cfg.granularity # "Full"
    /\ loc.k = 0 /\ ~RectLoopCondition
    /\ loc' = [loc EXCEPT !.rects = RectsSorted(loc.rects)]
    /\ pc' = "rect_fill"
    /\ UNCHANGED <<cfg, req, room, arranged, sets, dungeon>>
    /\ UNCHANGED floorVars

\* One turn of the loop of fill_and_build_corridors; after the last one the
\* room is returned.
RectFill ==
    /\ pc = "rect_fill"
    /\ \E draw \in 0..1 :
          room' = FillAndTunnel(room, loc.rects, loc.i + 1, draw)
    /\ loc' = [loc EXCEPT !.i = loc.i + 1]
    /\ pc' = IF loc.i + 1 = Len(loc.rects) THEN "built" ELSE "rect_fill"
    /\ UNCHANGED <<cfg, req, arranged, sets, dungeon>>
    /\ UNCHANGED floorVars

NextRect ==
    \/ RectFull
    \/ RectNew
    \/ RectLoopEnd
    \/ RectFill
    \/ Pathing
    \/ ArrangeRoom

SpecRect == InitRect /\ [][NextRect]_vars

\* The builders the create_rects specification runs: the one rectangle of
\* Full, and grids of Large (number = 3) with one, four and no place for a
\* rectangle of the sizes drawn.
CreateRectsBuilders ==
    {[kind |-> "Rectangles", rows |-> 3, cols |-> 4, granularity |-> "Full"],
     [kind |-> "Rectangles", rows |-> 4, cols |-> 4, granularity |-> "Large"],
     [kind |-> "Rectangles", rows |-> 6, cols |-> 6, granularity |-> "Large"],
     [kind |-> "Rectangles", rows |-> 8, cols |-> 8, granularity |-> "Large"]}

\* create_room up to the return of create_rects, for a room without exits.
InitCreateRects ==
    /\ pc = "rect_rects"
    /\ cfg \in CreateRectsBuilders
    /\ req \in {q \in FloorRooms : q.exits = <<>>}
    /\ room = [DungeonRoom(cfg.rows, cfg.cols, TileVec(cfg.cols * cfg.rows, "Wall"))
                  EXCEPT !.stair_down = req.stair_down, !.stair_up = req.stair_up]
    /\ loc = [rects |-> <<>>, retries |-> 0, k |-> 0, i |-> 0]
    /\ arranged = Idle
    /\ sets = Idle
    /\ dungeon = Idle
    /\ FloorIdle

NextCreateRects ==
    \/ RectFull
    \/ RectNew
    \/ RectLoopEnd

SpecCreateRects == InitCreateRects /\ [][NextCreateRects]_vars

\* No two of the rectangles intersect.
NonOverlapping(rects) ==
    \A j, k \in DOMAIN rects : j # k => ~intersect(rects[j], rects[k])

\* The rectangle lies inside the border of the grid of builder c.
InInterior(c, rect) ==
    /\ 1 <= rect.row1 /\ rect.row1 <= rect.row2 /\ rect.row2 <= c.rows - 2
    /\ 1 <= rect.col1 /\ rect.col1 <= rect.col2 /\ rect.col2 <= c.cols - 2

\* C22: create_rects never panics; with a granularity other than Full its
\* rectangles are pairwise non-overlapping, lie inside the border and are
\* never more than the number of the granularity; with Full it returns the
\* one rectangle (1, rows - 2, 1, cols - 2).
C22_CreateRectsBounded ==
    /\ pc # "panic"
    /\ cfg.granularity # "Full" =>
          /\ NonOverlapping(loc.rects)
          /\ \A k \in DOMAIN loc.rects : InInterior(cfg, loc.rects[k])
          /\ Len(loc.rects) <= RectNumber(cfg)
    /\ (cfg.granularity = "Full" /\ pc = "rect_fill") =>
          loc.rects = <<URect(1, cfg.rows - 2, 1, cfg.cols - 2)>>

\* C29: with a granularity other than Full and at least four rows and
\* columns, create_rect never asks the random source for an empty range.
C29_RangesNonEmpty ==
    (cfg.granularity # "Full" /\ cfg.rows >= 4 /\ cfg.cols >= 4) => pc # "panic"

\* The center tile of side d of room r.
CenterTile(r, d) ==
    CASE d = "Top" -> room_idx(r, 0, r.columns \div 2)
      [] d = "Bottom" -> room_idx(r, r.rows - 1, r.columns \div 2)
      [] d = "Left" -> room_idx(r, r.rows \div 2, 0)
      [] d = "Right" -> room_idx(r, r.rows \div 2, r.columns - 1)

\* C2: the non-Wall tiles of the room a RectangleCorridor builder returns
\* touch exactly the requested borders, and every requested border is open
\* at its center tile.
C2_RectBordersAndCenters ==
    (pc = "built" /\ cfg.kind = "Rectangles") =>
        /\ BorderTouches(room, NonWall(room)) = Range(req.exits)
        /\ \A d \in Range(req.exits) : room.tiles[CenterTile(room, d)] # "Wall"

----------------------------------------------------------------------------
(* src/dungeon/layout.rs, src/dungeon/coords.rs and
   src/dungeon/dungeon_architecture.rs *)

\* The largest floor size the dungeon specification draws.
MaxDungeonFloorSize == 2

\* The layout configurations the dungeon specification runs, as the ranges
\* low..high (high excluded) of DungeonLayoutConfig: floors on one side with
\* floors of several rooms, floors on both sides with one-room floors, and
\* floors above with three-room floors (where two rooms can be equally far
\* from the start).
DungeonLayoutConfigs ==
    {[floor_size |-> <<1, MaxDungeonFloorSize + 1>>,
      floors_above |-> <<0, 2>>, floors_below |-> <<0, 1>>],
     [floor_size |-> <<1, MaxDungeonFloorSize + 1>>,
      floors_above |-> <<0, 1>>, floors_below |-> <<0, 2>>],
     [floor_size |-> <<1, 2>>,
      floors_above |-> <<0, 2>>, floors_below |-> <<0, 2>>],
     [floor_size |-> <<3, 4>>,
      floors_above |-> <<1, 2>>, floors_below |-> <<0, 1>>]}

\* A mutant of from_coords: the floors are taken in the order given.
from_coords_Unordered(row, col, floor1, floor2) ==
    [lower_floor |-> [floor |-> floor1, row |-> row, col |-> col],
     upper_floor |-> [floor |-> floor2, row |-> row, col |-> col]]

\* StairCoordinates::from_coords
from_coords(row, col, floor1, floor2) ==
    [lower_floor |-> DungeonCoordinates(Min(floor1, floor2), row, col),
     upper_floor |-> DungeonCoordinates(Max(floor1, floor2), row, col)]

\* DungeonLayout::default and the locals of create_dungeon_layout and
\* layout_floors.
DungeonLayout(floors_above, floors_below) ==
    [coords |-> <<>>,
     floors |-> <<>>,
     stairs |-> <<>>,
     first_room |-> DungeonCoordinates(0, 0, 0),
     last_room |-> DungeonCoordinates(0, 0, 0),
     floors_above |-> floors_above,
     floors_below |-> floors_below,
     stair_room |-> DungeonCoordinates(0, 0, 0),
     floor |-> 0,
     floor_abs |-> 0,
     floors_end |-> 0,
     negative_floors |-> FALSE,
     floor_before |-> 0,
     floor_start_room |-> Position(0, 0)]

\* A mutant of max_by_key: the first element of maximal key is kept.
RECURSIVE max_by_key_First(_)
max_by_key_First(keyed) ==
    IF Len(keyed) = 1 THEN keyed[1]
    ELSE LET x == max_by_key_First(SubSeq(keyed, 1, Len(keyed) - 1))
             y == keyed[Len(keyed)]
         IN  IF x.key >= y.key THEN x ELSE y

\* Iterator::max_by_key over the non-empty sequence keyed of [key, item]
\* records: the fold keeps the element seen so far only while its key is
\* greater than the next one's, so the last element of maximal key is
\* returned.
RECURSIVE max_by_key(_)
max_by_key(keyed) ==
    IF Len(keyed) = 1 THEN keyed[1]
    ELSE LET x == max_by_key(SubSeq(keyed, 1, Len(keyed) - 1))
             y == keyed[Len(keyed)]
         IN  IF x.key > y.key THEN x ELSE y

\* The callers filter a floor that has rooms, so unwrap never sees None.
find_distanced_room_on_floor(d, from) ==
    LET OnFloor(c) == c.floor = from.floor
        filtered == SelectSeq(d.coords, OnFloor)
    IN  max_by_key([k \in DOMAIN filtered |->
            [key |-> Abs(from.row - filtered[k].row) + Abs(from.col - filtered[k].col),
             item |-> filtered[k]]]).item

find_distanced_room_in_dungeon(d, from) ==
    max_by_key([k \in DOMAIN d.coords |->
        [key |-> Abs(from.row - d.coords[k].row) + Abs(from.col - d.coords[k].col)
                     + Abs(from.floor - d.coords[k].floor) * 4,
         item |-> d.coords[k]]]).item

\* A mutant of layout_set_stairs: the two ends of the links are exchanged.
layout_set_stairs_Exchanged(d) ==
    LET up_rooms == {d.stairs[k].upper_floor : k \in DOMAIN d.stairs}
        down_rooms == {d.stairs[k].lower_floor : k \in DOMAIN d.stairs}
    IN  [d EXCEPT !.floors = [f \in DOMAIN d.floors |->
            [d.floors[f] EXCEPT !.rooms = [r \in DOMAIN d.floors[f].rooms |->
                [d.floors[f].rooms[r] EXCEPT
                    !.stair_up = [floor |-> d.floors[f].floor,
                                  row |-> d.floors[f].rooms[r].coords.row,
                                  col |-> d.floors[f].rooms[r].coords.col] \in up_rooms,
                    !.stair_down = [floor |-> d.floors[f].floor,
                                    row |-> d.floors[f].rooms[r].coords.row,
                                    col |-> d.floors[f].rooms[r].coords.col] \in down_rooms]]]]]

\* set_stairs of dungeon_architecture.rs
layout_set_stairs(d) ==
    LET up_rooms == {d.stairs[k].lower_floor : k \in DOMAIN d.stairs}
        down_rooms == {d.stairs[k].upper_floor : k \in DOMAIN d.stairs}
        Tagged(fl, rm) ==
            LET dungeon_coords == DungeonCoordinates(fl.floor, rm.coords.row, rm.coords.col)
            IN  [rm EXCEPT !.stair_up = dungeon_coords \in up_rooms,
                           !.stair_down = dungeon_coords \in down_rooms]
    IN  [d EXCEPT !.floors = [f \in DOMAIN d.floors |->
            [d.floors[f] EXCEPT !.rooms = [r \in DOMAIN d.floors[f].rooms |->
                Tagged(d.floors[f], d.floors[f].rooms[r])]]]]

\* layout_floor once the floor's coordinates are laid out: the floor and the
\* coordinates of its rooms are pushed.
PushFloor(d, coords, fl) ==
    [d EXCEPT !.floors = Append(@, FloorLayoutOf(coords, fl)),
              !.coords = @ \o [k \in DOMAIN coords |->
                                  DungeonCoordinates(fl, coords[k].row, coords[k].col)]]

\* A mutant of BuildsFloors: floors are built whatever the drawn count.
BuildsFloors_Always(n) == TRUE

\* if floors_above > 0 and if floors_below > 0
BuildsFloors(n) == n > 0

\* The end of create_dungeon_layout.
WithLastRoom(d) ==
    [d EXCEPT !.last_room = find_distanced_room_in_dungeon(d, DungeonCoordinates(0, 0, 0))]

InitDungeon ==
    /\ pc = "dungeon_start"
    /\ cfg \in DungeonLayoutConfigs
    /\ dungeon = Idle
    /\ req = Idle
    /\ room = Idle
    /\ loc = Idle
    /\ arranged = Idle
    /\ sets = Idle
    /\ FloorIdle

\* layout_floor has drawn size as the floor size; randomized_layout starts at
\* start.
StartFloorOf(start, size) ==
    /\ floor_size' = size
    /\ start_room' = RoomCoordinates(start.row, start.col)
    /\ pos' = RoomCoordinates(start.row, start.col)
    /\ layout' = <<RoomCoordinates(start.row, start.col)>>

\* The three ranges create_dungeon_layout and layout_floor draw from.
FloorsAboveRange == GenRange(cfg.floors_above[1], cfg.floors_above[2])
FloorsBelowRange == GenRange(cfg.floors_below[1], cfg.floors_below[2])
FloorSizeRange == GenRange(cfg.floor_size[1], cfg.floor_size[2])

\* The head of create_dungeon_layout with the values drawn, in the order of
\* the draws: the layout of floor 0 starts at (0, 0).
DungeonSampleStep(floors_above, floors_below, size) ==
    /\ pc = "dungeon_start"
    /\ dungeon' = DungeonLayout(floors_above, floors_below)
    /\ StartFloorOf(Position(0, 0), size)
    /\ pc' = "dungeon_dig"
    /\ UNCHANGED floor

\* The head of create_dungeon_layout: the floor counts and the size of
\* floor 0 are drawn.
DungeonSample ==
    /\ \E floors_above \in FloorsAboveRange, floors_below \in FloorsBelowRange,
          size \in FloorSizeRange :
         DungeonSampleStep(floors_above, floors_below, size)
    /\ UNCHANGED roomVars

\* One turn of the loop of randomized_layout with the value drawn.
DungeonDigStep(draw) ==
    /\ pc = "dungeon_dig"
    /\ Len(layout) < floor_size
    /\ pos' = DigMove(pos, draw)
    /\ layout' = DigRecord(layout, DigMove(pos, draw))
    /\ UNCHANGED <<pc, floor_size, start_room, floor, dungeon>>

\* One turn of the loop of randomized_layout for the current floor.
DungeonDig ==
    /\ \E draw \in 0..3 : DungeonDigStep(draw)
    /\ UNCHANGED roomVars

\* The current floor is laid out and pushed; on floor 0 the first room and the
\* stair room are nominated, on another floor the loop of layout_floors
\* finds the start room of the next floor.
DungeonLayoutFloor ==
    /\ pc = "dungeon_dig"
    /\ ~(Len(layout) < floor_size)
    /\ floor' = FloorLayoutOf(layout, dungeon.floor)
    /\ LET pushed == PushFloor(dungeon, layout, dungeon.floor)
       IN  IF dungeon.floor = 0
           THEN /\ dungeon' =
                      [pushed EXCEPT
                         !.first_room = pushed.coords[1],
                         !.stair_room =
                             find_distanced_room_on_floor(pushed, pushed.coords[1])]
                /\ pc' = "dungeon_above"
           ELSE /\ dungeon' =
                      LET distanced_room ==
                              find_distanced_room_on_floor(pushed,
                                  DungeonCoordinates(dungeon.floor,
                                                     dungeon.floor_start_room.row,
                                                     dungeon.floor_start_room.col))
                      IN  [pushed EXCEPT
                              !.floor_before = dungeon.floor,
                              !.floor_start_room =
                                  Position(distanced_room.row, distanced_room.col)]
                /\ pc' = "dungeon_loop"
    /\ UNCHANGED <<floor_size, start_room, pos, layout, roomVars>>

\* layout_floors is entered with the range 1..floors + 2.
EnterLayoutFloors(floors, negative_floors) ==
    [dungeon EXCEPT !.floor_start_room =
                        Position(dungeon.stair_room.row, dungeon.stair_room.col),
                    !.floor_before = 0,
                    !.floor_abs = 1,
                    !.floors_end = floors + 2,
                    !.negative_floors = negative_floors]

\* if floors_above > 0
DungeonAbove ==
    /\ pc = "dungeon_above"
    /\ IF BuildsFloors(dungeon.floors_above)
       THEN /\ dungeon' = EnterLayoutFloors(dungeon.floors_above, FALSE)
            /\ pc' = "dungeon_loop"
       ELSE /\ pc' = "dungeon_below"
            /\ UNCHANGED dungeon
    /\ UNCHANGED <<floorVars, roomVars>>

\* if floors_below > 0; without floors below the layout is returned.
DungeonBelow ==
    /\ pc = "dungeon_below"
    /\ IF BuildsFloors(dungeon.floors_below)
       THEN /\ dungeon' = EnterLayoutFloors(dungeon.floors_below, TRUE)
            /\ pc' = "dungeon_loop"
       ELSE /\ dungeon' = WithLastRoom(dungeon)
            /\ pc' = "dungeon_done"
    /\ UNCHANGED <<floorVars, roomVars>>

\* A turn of the for loop of layout_floors with the floor size drawn: the
\* stair is pushed and the next floor started.
DungeonLoopTurn(size) ==
    /\ pc = "dungeon_loop"
    /\ dungeon.floor_abs < dungeon.floors_end
    /\ LET fl == IF dungeon.negative_floors THEN -dungeon.floor_abs
                 ELSE dungeon.floor_abs
       IN  dungeon' =
               [dungeon EXCEPT
                  !.stairs = Append(@, from_coords(dungeon.floor_start_room.row,
                                                   dungeon.floor_start_room.col,
                                                   dungeon.floor_before, fl)),
                  !.floor = fl,
                  !.floor_abs = @ + 1]
    /\ StartFloorOf(dungeon.floor_start_room, size)
    /\ pc' = "dungeon_dig"
    /\ UNCHANGED floor

\* The for loop of layout_floors ends with set_stairs; after the floors
\* below the layout is returned.
DungeonLoopEnd ==
    /\ pc = "dungeon_loop"
    /\ ~(dungeon.floor_abs < dungeon.floors_end)
    /\ IF dungeon.negative_floors
       THEN /\ dungeon' = WithLastRoom(layout_set_stairs(dungeon))
            /\ pc' = "dungeon_done"
       ELSE /\ dungeon' = layout_set_stairs(dungeon)
            /\ pc' = "dungeon_below"
    /\ UNCHANGED floorVars

\* The head of the for loop of layout_floors: the stair is pushed and the
\* next floor started, or the loop ends with set_stairs.
DungeonLoop ==
    /\ \/ \E size \in FloorSizeRange : DungeonLoopTurn(size)
       \/ DungeonLoopEnd
    /\ UNCHANGED roomVars

NextDungeon ==
    \/ DungeonSample
    \/ DungeonDig
    \/ DungeonLayoutFloor
    \/ DungeonAbove
    \/ DungeonBelow
    \/ DungeonLoop

SpecDungeon == InitDungeon /\ [][NextDungeon]_vars

\* C10: when floors_above and floors_below were both drawn as 0, the layout
\* create_dungeon_layout returns has exactly one floor, of index 0, no stair
\* link, and no room with stair_up or stair_down set.
C10_NoFloorsNoStairs ==
    (pc = "dungeon_done" /\ dungeon.floors_above = 0 /\ dungeon.floors_below = 0) =>
        /\ Len(dungeon.floors) = 1
        /\ dungeon.floors[1].floor = 0
        /\ dungeon.stairs = <<>>
        /\ \A f \in DOMAIN dungeon.floors : \A r \in DOMAIN dungeon.floors[f].rooms :
              /\ ~dungeon.floors[f].rooms[r].stair_up
              /\ ~dungeon.floors[f].rooms[r].stair_down

\* A layout of two rooms on floor 0 is returned after both counts were drawn 0.
C10_Witness ==
    /\ pc = "dungeon_done"
    /\ dungeon.floors_above = 0
    /\ dungeon.floors_below = 0
    /\ Len(dungeon.floors) = 1
    /\ Len(dungeon.floors[1].rooms) = 2

\* The floor indices of the layout's floors.
FloorIndices(d) == {d.floors[f].floor : f \in DOMAIN d.floors}

\* C11: with floors_above = N and floors_below = M drawn, the returned layout
\* holds exactly the floors -M..N (1+N+M floors) and exactly N+M stair links.
C11_FloorsAndStairLinks ==
    pc = "dungeon_done" =>
        /\ FloorIndices(dungeon) = (0 - dungeon.floors_below)..dungeon.floors_above
        /\ Len(dungeon.floors) = 1 + dungeon.floors_above + dungeon.floors_below
        /\ Len(dungeon.stairs) = dungeon.floors_above + dungeon.floors_below

\* C12: in every returned layout each stair link joins the same row and
\* column of two consecutive floors, the lower one in lower_floor, and with
\* floors_above = N > 0 the layout holds at least N stair links.
C12_StairLinksOrdered ==
    pc = "dungeon_done" =>
        /\ \A k \in DOMAIN dungeon.stairs :
              /\ dungeon.stairs[k].lower_floor.row = dungeon.stairs[k].upper_floor.row
              /\ dungeon.stairs[k].lower_floor.col = dungeon.stairs[k].upper_floor.col
              /\ dungeon.stairs[k].upper_floor.floor
                     = dungeon.stairs[k].lower_floor.floor + 1
        /\ dungeon.floors_above > 0 => Len(dungeon.stairs) >= dungeon.floors_above

\* A layout with floors above and below is returned: it holds a link between
\* two floors above and a link between two floors below.
C12_Witness ==
    /\ pc = "dungeon_done"
    /\ dungeon.floors_above > 0
    /\ dungeon.floors_below > 0
    /\ \E k \in DOMAIN dungeon.stairs : dungeon.stairs[k].lower_floor.floor > 0
    /\ \E k \in DOMAIN dungeon.stairs : dungeon.stairs[k].upper_floor.floor < 0

\* The dungeon coordinates of the rooms of the layout's floors.
RoomCoords(d) ==
    UNION {{DungeonCoordinates(d.floors[f].floor, d.floors[f].rooms[r].coords.row,
                               d.floors[f].rooms[r].coords.col) :
               r \in DOMAIN d.floors[f].rooms} : f \in DOMAIN d.floors}

\* C13: in the returned layout a room has stair_up exactly when its
\* coordinate is the lower_floor of a stair link and stair_down exactly when
\* it is the upper_floor of one, and both ends of every link are rooms.
C13_StairFlagsMatchLinks ==
    pc = "dungeon_done" =>
        /\ \A f \in DOMAIN dungeon.floors : \A r \in DOMAIN dungeon.floors[f].rooms :
              LET c == DungeonCoordinates(dungeon.floors[f].floor,
                                          dungeon.floors[f].rooms[r].coords.row,
                                          dungeon.floors[f].rooms[r].coords.col)
              IN  /\ dungeon.floors[f].rooms[r].stair_up
                        <=> \E k \in DOMAIN dungeon.stairs : dungeon.stairs[k].lower_floor = c
                  /\ dungeon.floors[f].rooms[r].stair_down
                        <=> \E k \in DOMAIN dungeon.stairs : dungeon.stairs[k].upper_floor = c
        /\ \A k \in DOMAIN dungeon.stairs :
              /\ dungeon.stairs[k].lower_floor \in RoomCoords(dungeon)
              /\ dungeon.stairs[k].upper_floor \in RoomCoords(dungeon)

\* A returned layout with stair links in which one room has only stair_up,
\* one only stair_down and one neither.
C13_Witness ==
    /\ pc = "dungeon_done"
    /\ dungeon.stairs # <<>>
    /\ \E f \in DOMAIN dungeon.floors : \E r \in DOMAIN dungeon.floors[f].rooms :
          dungeon.floors[f].rooms[r].stair_up /\ ~dungeon.floors[f].rooms[r].stair_down
    /\ \E f \in DOMAIN dungeon.floors : \E r \in DOMAIN dungeon.floors[f].rooms :
          dungeon.floors[f].rooms[r].stair_down /\ ~dungeon.floors[f].rooms[r].stair_up
    /\ \E f \in DOMAIN dungeon.floors : \E r \in DOMAIN dungeon.floors[f].rooms :
          ~dungeon.floors[f].rooms[r].stair_down /\ ~dungeon.floors[f].rooms[r].stair_up

\* The Manhattan distance of two coordinates on a floor.
Manhattan(a, b) == Abs(a.row - b.row) + Abs(a.col - b.col)

\* c is, among the coordinates of coords on the floor of from, one of
\* maximal Manhattan distance from from, and no later one is as far.
FarthestLast(coords, from, c) ==
    \E k \in DOMAIN coords :
        /\ coords[k] = c
        /\ c.floor = from.floor
        /\ \A j \in DOMAIN coords : coords[j].floor = from.floor =>
              /\ Manhattan(from, coords[j]) <= Manhattan(from, c)
              /\ j > k => Manhattan(from, coords[j]) < Manhattan(from, c)

\* The loop of layout_floors has just laid out the floor dungeon.floor.
FloorLaidOut ==
    /\ pc = "dungeon_loop"
    /\ dungeon.floor # 0
    /\ dungeon.floor_before = dungeon.floor

\* C14: the stair room of every floor is, among the coordinates of that
\* floor, one of maximal Manhattan distance from the floor's start room,
\* and the last such one in the order of layout.coords.
C14_StairRoomFarthestLast ==
    /\ pc = "dungeon_above" =>
          FarthestLast(dungeon.coords,
                       DungeonCoordinates(0, start_room.row, start_room.col),
                       dungeon.stair_room)
    /\ FloorLaidOut =>
          FarthestLast(dungeon.coords,
                       DungeonCoordinates(dungeon.floor, start_room.row, start_room.col),
                       DungeonCoordinates(dungeon.floor, dungeon.floor_start_room.row,
                                          dungeon.floor_start_room.col))

\* A floor above floor 0 is laid out with two rooms equally far from its
\* start room, and farther than any other.
C14_Witness ==
    /\ FloorLaidOut
    /\ \E j, k \in DOMAIN dungeon.coords :
          /\ j < k
          /\ dungeon.coords[j].floor = dungeon.floor
          /\ dungeon.coords[k].floor = dungeon.floor
          /\ Manhattan(start_room, dungeon.coords[j]) = Manhattan(start_room, dungeon.coords[k])
          /\ \A i \in DOMAIN dungeon.coords : dungeon.coords[i].floor = dungeon.floor =>
                Manhattan(start_room, dungeon.coords[i])
                    <= Manhattan(start_room, dungeon.coords[k])

----------------------------------------------------------------------------
(* create_dungeon_layout run twice on the same sequence of draws.  The first
   run draws freely and the values are recorded in the order the random
   source is asked for them; the second run of the same configuration is
   fed the recorded sequence.  loc holds the number of the run, the recorded
   draws, the number of draws the current run has consumed and the layout
   the first run returned. *)

\* The longest sequence of draws a first run may consume.
MaxDraws == 8

\* The configurations run twice.
SameDrawsConfigs ==
    {[floor_size |-> <<1, 3>>, floors_above |-> <<0, 2>>, floors_below |-> <<0, 2>>]}

\* The DungeonLayout create_dungeon_layout returns.
Returned(d) ==
    [coords |-> d.coords, floors |-> d.floors, stairs |-> d.stairs,
     first_room |-> d.first_room, last_room |-> d.last_room]

\* A mutant of gen_range: the second run is not fed the recorded draws.
gen_range_Fresh(k, range) == range

\* The values the k-th next rng.gen_range(range) may return: any value of
\* the range in the first run; in the second run the random source returns
\* the value it returned at the same place of the sequence in the first.
gen_range(k, range) ==
    IF loc.run = 1 THEN range
    ELSE IF loc.at + k <= Len(loc.draws) THEN {loc.draws[loc.at + k]} \cap range
         ELSE {}

\* The random source has returned values: the first run records them.
Consumed(values) ==
    /\ loc.run = 1 => Len(loc.draws) + Len(values) <= MaxDraws
    /\ loc' = [loc EXCEPT !.at = @ + Len(values),
                          !.draws = IF loc.run = 1 THEN @ \o values ELSE @]
    /\ UNCHANGED <<cfg, req, room, arranged, sets>>

InitSameDraws ==
    /\ pc = "dungeon_start"
    /\ cfg \in SameDrawsConfigs
    /\ dungeon = Idle
    /\ req = Idle
    /\ room = Idle
    /\ loc = [run |-> 1, draws |-> <<>>, at |-> 0, first |-> <<>>]
    /\ arranged = Idle
    /\ sets = Idle
    /\ FloorIdle

SameDrawsSample ==
    \E floors_above \in gen_range(1, FloorsAboveRange),
       floors_below \in gen_range(2, FloorsBelowRange),
       size \in gen_range(3, FloorSizeRange) :
        /\ DungeonSampleStep(floors_above, floors_below, size)
        /\ Consumed(<<floors_above, floors_below, size>>)

SameDrawsDig ==
    \E draw \in gen_range(1, 0..3) :
        /\ DungeonDigStep(draw)
        /\ Consumed(<<draw>>)

SameDrawsLoopTurn ==
    \E size \in gen_range(1, FloorSizeRange) :
        /\ DungeonLoopTurn(size)
        /\ Consumed(<<size>>)

\* The steps of create_dungeon_layout that draw nothing.
SameDrawsStep ==
    \/ DungeonLayoutFloor
    \/ DungeonAbove
    \/ DungeonBelow
    \/ DungeonLoopEnd /\ UNCHANGED roomVars

\* The first run has returned: create_dungeon_layout is called again with
\* the same configuration and a random source that repeats its sequence.
SameDrawsAgain ==
    /\ pc = "dungeon_done"
    /\ loc.run = 1
    /\ loc' = [loc EXCEPT !.run = 2, !.at = 0, !.first = <<Returned(dungeon)>>]
    /\ pc' = "dungeon_start"
    /\ dungeon' = Idle
    /\ floor_size' = 0
    /\ start_room' = Idle
    /\ pos' = Idle
    /\ layout' = <<>>
    /\ floor' = Idle
    /\ UNCHANGED <<cfg, req, room, arranged, sets>>

NextSameDraws ==
    \/ SameDrawsSample
    \/ SameDrawsDig
    \/ SameDrawsLoopTurn
    \/ SameDrawsStep
    \/ SameDrawsAgain

SpecSameDraws == InitSameDraws /\ [][NextSameDraws]_vars

\* The second run is about to ask the random source for a value of range:
\* the recorded sequence holds a value of that range at this place.
NextDrawIn(k, range) ==
    /\ loc.at + k <= Len(loc.draws)
    /\ loc.draws[loc.at + k] \in range

\* The second run asks for its draws where the first did.
SecondRunInStep ==
    /\ pc = "dungeon_start" =>
          /\ NextDrawIn(1, FloorsAboveRange)
          /\ NextDrawIn(2, FloorsBelowRange)
          /\ NextDrawIn(3, FloorSizeRange)
    /\ (pc = "dungeon_dig" /\ Len(layout) < floor_size) => NextDrawIn(1, 0..3)
    /\ (pc = "dungeon_loop" /\ dungeon.floor_abs < dungeon.floors_end) =>
          NextDrawIn(1, FloorSizeRange)

----------------------------------------------------------------------------
(* src/room/automata.rs *)

\* The builders the automata specification runs; with more columns than rows
\* iteration indexes past the tiles.
AutomataBuilders ==
    {[kind |-> "Automata", rows |-> 3, cols |-> 3, wall_percent |-> 33, iterations |-> n] :
        n \in 1..2}
    \cup {[kind |-> "Automata", rows |-> d[1], cols |-> d[2], wall_percent |-> 33,
            iterations |-> 1] : d \in {<<4, 3>>, <<3, 4>>}}

\* The builder and requirement pairs of the automata specification: every
\* requirement for the square rooms, those without stairs for the others.
AutomataRuns ==
    {run \in AutomataBuilders \X FloorRooms :
        run[1].rows = run[1].cols \/ (~run[2].stair_up /\ ~run[2].stair_down)}

\* The tiles random_noise_map can push for one roll of gen_range(0..100).
NoiseTiles(c) == {IF roll > c.wall_percent THEN "Floor" ELSE "Wall" : roll \in 0..99}

\* The index count_neighbors and iteration compute for (x, y): x, a column,
\* is passed to room_idx as the row.
AutomataIdx(r, x, y) == room_idx(r, x, y)

count_neighbors(r, x, y) ==
    Cardinality({q \in (0..2) \X (0..2) :
        /\ ~(q[1] = 1 /\ q[2] = 1)
        /\ r.tiles[AutomataIdx(r, x + q[1] - 1, y + q[2] - 1)] = "Wall"})

\* The <<x, y>> pairs the loops of iteration visit.
IterationCells(r) == (1..(r.columns - 2)) \X (1..(r.rows - 2))

\* iteration indexes a tile outside the tile vector: it panics.
IterationPanics(r) ==
    \E xy \in IterationCells(r) : \E q \in (0..2) \X (0..2) :
        AutomataIdx(r, xy[1] + q[1] - 1, xy[2] + q[2] - 1) \notin DOMAIN r.tiles

\* AutomataRoomBuilder::iteration when it does not panic; a tile written for
\* several <<x, y>> keeps the value of the last one (y is the outer loop).
iteration(r) ==
    LET Writers(i) == {xy \in IterationCells(r) : AutomataIdx(r, xy[1], xy[2]) = i}
        LastWriter(i) ==
            CHOOSE xy \in Writers(i) : \A o \in Writers(i) :
                o[2] < xy[2] \/ (o[2] = xy[2] /\ o[1] <= xy[1])
        NewTile(xy) ==
            LET neighbors == count_neighbors(r, xy[1], xy[2])
            IN  IF neighbors > 4 \/ neighbors = 0 THEN "Wall" ELSE "Floor"
    IN  [r EXCEPT !.tiles = [i \in DOMAIN r.tiles |->
            IF Writers(i) = {} THEN r.tiles[i] ELSE NewTile(LastWriter(i))]]

\* for _ in 0..self.iterations { self.iteration(&mut room) }
RECURSIVE Iterate(_, _)
Iterate(r, n) ==
    IF n = 0 THEN Ok(r)
    ELSE IF IterationPanics(r) THEN Panicked(r)
    ELSE Iterate(iteration(r), n - 1)

\* The four corners are closed.
CloseCorners(r) ==
    [r EXCEPT !.tiles = [i \in DOMAIN r.tiles |->
        IF i \in {0, r.columns - 1, (r.rows - 1) * r.columns, TilesLen(r) - 1}
        THEN "Wall" ELSE r.tiles[i]]]

\* AutomataRoomBuilder::random_room for the noise map `tiles`.
random_room(c, tiles) ==
    LET iterated == Iterate(DungeonRoom(c.rows, c.cols, tiles), c.iterations)
    IN  IF iterated.ok THEN Ok(CloseCorners(iterated.room)) ELSE iterated

InitAutomata ==
    /\ pc = "automata_loop"
    /\ \E run \in AutomataRuns :
         /\ cfg = run[1]
         /\ req = run[2]
         /\ room = [DungeonRoom(0, 0, <<>>) EXCEPT !.stair_down = run[2].stair_down,
                                                   !.stair_up = run[2].stair_up]
    /\ loc = [exits_hit |-> <<>>, all_exits_hit |-> FALSE]
    /\ arranged = Idle
    /\ sets = Idle
    /\ dungeon = Idle
    /\ FloorIdle

\* One turn of the while loop of create_room: a random room replaces the
\* room.  A room that misses a requested exit is only ever overwritten by the
\* next turn, so the turn that draws it leaves the state as it is.
AutomataRandomRoom ==
    /\ pc = "automata_loop"
    /\ ~loc.all_exits_hit
    /\ \E tiles \in [0..(cfg.rows * cfg.cols - 1) -> NoiseTiles(cfg)] :
         LET made == random_room(cfg, tiles)
             hit == get_hit_exits(cfg, made.room)
         IN  IF made.ok
             THEN /\ AllExitsHit(req.exits, hit)
                  /\ room' = made.room
                  /\ loc' = [exits_hit |-> hit, all_exits_hit |-> TRUE]
                  /\ UNCHANGED pc
             ELSE /\ pc' = "panic"
                  /\ UNCHANGED <<room, loc>>
    /\ UNCHANGED <<cfg, req, arranged, sets, dungeon>>
    /\ UNCHANGED floorVars

\* The while loop has ended: the unwanted hit sides are closed and the room
\* is returned.
AutomataReturn ==
    /\ pc = "automata_loop"
    /\ loc.all_exits_hit
    /\ LET closed == CloseSides(room, NonWanted(loc.exits_hit, req.exits))
       IN  /\ room' = closed.room
           /\ pc' = IF closed.ok THEN "built" ELSE "panic"
    /\ UNCHANGED <<cfg, req, loc, arranged, sets, dungeon>>
    /\ UNCHANGED floorVars

NextAutomata ==
    \/ AutomataRandomRoom
    \/ AutomataReturn
    \/ Pathing
    \/ ArrangeRoom

SpecAutomata == InitAutomata /\ [][NextAutomata]_vars

\* C28: every room pathing() is called on holds a non-Wall tile: the room
\* create_room returns to create_rooms, and the room after each close_side
\* of create_room that walled a tile.
C28_PathingHasTiles ==
    /\ pc = "built" => NonWall(room) # {}
    /\ (pc = "automata_loop" /\ loc.all_exits_hit) =>
          CloseSides(room, NonWanted(loc.exits_hit, req.exits)).ok

\* C18: the room a builder returns, and the ArrangedDungeonRoom built from
\* it, carry the stair_up and stair_down flags of the requirement.
C18_StairFlagsCarried ==
    /\ pc \in {"built", "pathed", "arranged"} =>
          /\ room.stair_up = req.stair_up
          /\ room.stair_down = req.stair_down
    /\ pc = "arranged" =>
          /\ arranged.stair_up = req.stair_up
          /\ arranged.stair_down = req.stair_down

\* The grids the iteration specification hands to one call of iteration.
IterationGrids == {<<3, 3>>, <<3, 4>>, <<4, 3>>}

\* A room of Floor and Wall tiles, as random_noise_map fills it.
InitIteration ==
    /\ pc = "noise"
    /\ cfg = [kind |-> "Automata"]
    /\ \E d \in IterationGrids :
          \E tiles \in [0..(d[1] * d[2] - 1) -> {"Floor", "Wall"}] :
              room = DungeonRoom(d[1], d[2], tiles)
    /\ loc = Idle
    /\ req = Idle
    /\ arranged = Idle
    /\ sets = Idle
    /\ dungeon = Idle
    /\ FloorIdle

\* One call of iteration; loc keeps the room it was called with.
AutomataIteration ==
    /\ pc = "noise"
    /\ loc' = room
    /\ IF IterationPanics(room)
       THEN pc' = "panic" /\ UNCHANGED room
       ELSE pc' = "iterated" /\ room' = iteration(room)
    /\ UNCHANGED <<cfg, req, arranged, sets, dungeon>>
    /\ UNCHANGED floorVars

NextIteration == AutomataIteration

SpecIteration == InitIteration /\ [][NextIteration]_vars

\* The Wall tiles among the eight neighbours of (row, col) in room r.
MooreWalls(r, row, col) ==
    Cardinality({q \in ((row - 1)..(row + 1)) \X ((col - 1)..(col + 1)) :
        q # <<row, col>> /\ r.tiles[q[1] * r.columns + q[2]] = "Wall"})

\* The tile at index i lies inside the border of room r.
Interior(r, i) ==
    /\ 0 < i \div r.columns /\ i \div r.columns < r.rows - 1
    /\ 0 < i % r.columns /\ i % r.columns < r.columns - 1

\* C23: one iteration never indexes outside the grid, leaves the border
\* tiles as they were and makes an interior tile Wall exactly when 0 or more
\* than 4 of its eight neighbours were Wall, Floor otherwise.
C23_IterationRule ==
    /\ pc # "panic"
    /\ pc = "iterated" =>
          \A i \in DOMAIN room.tiles :
              room.tiles[i] =
                  IF ~Interior(loc, i) THEN loc.tiles[i]
                  ELSE LET walls == MooreWalls(loc, i \div loc.columns, i % loc.columns)
                       IN  IF walls = 0 \/ walls > 4 THEN "Wall" ELSE "Floor"

====
